---- MODULE Spec2Model ----
(***************************************************************************)
(* A model of the retry scheduler of goamz (package aws, attempt.go), of   *)
(* the retry loops of package s3 that drive it, and of the classification  *)
(* of errors (ShouldRetry) that those loops consult.                       *)
(*                                                                         *)
(* Time is an integer clock; one unit stands for 50ms, so the strategy of  *)
(* TestAttemptTiming (Total 250ms, Delay 100ms) is Total 5, Delay 2.       *)
(* A FixedAttempt lives on a heap of objects, as the pointer that Start    *)
(* returns; each caller (a goroutine running one logical call) holds one   *)
(* reference.                                                              *)
(***************************************************************************)
EXTENDS Integers, Sequences, FiniteSets, TLC

VARIABLES
    strategy,   \* the shared FixedAttemptStrategy value (Total, Delay, Min)
    now,        \* the wall clock read by time.Now()
    heap,       \* address -> FixedAttempt object
    ref,        \* caller -> address of its Attempt (0 = none yet)
    pc,         \* caller -> position of the caller
    wake,       \* caller -> clock value at which a blocked caller may go on
    obs,        \* caller -> record of what the caller has observed so far
    form,       \* caller -> which retry loop the caller runs (LoopSpec)
    err,        \* caller -> error of the caller's last attempt (LoopSpec)
    RetryAlmostAllErrors,   \* the package variable of that name
    v4sign,     \* the S3 client signs with Signature Version 4
    req,        \* caller -> the request object of the current attempt
    wire,       \* caller -> the request as it was last transmitted
    ret,        \* caller -> what the operation has returned
    exchange,   \* the call of query under classification (ClassifySpec)
    fault,      \* the error that query returned (ClassifySpec)
    verdict,    \* what ShouldRetry answered under each policy (ClassifySpec)
    client,     \* the Region endpoints and the Auth token of the S3 client
    supplied,   \* the method, bucket, path and maps the caller supplies
    hreq,       \* the http.Request given to the V4 signer (SignSpec)
    canon,      \* what canonicalRequest returned for it (SignSpec)
    amzRestore, \* the x-amz-restore header text to parse (RestoreSpec)
    status,     \* the RestoreStatus that ParseAmzRestore fills (RestoreSpec)
    doc,        \* the lifecycle Configuration (VisitSpec)
    unclean,    \* what IsUnclean returned for it (VisitSpec)
    problems,   \* what CheckValues returned for it (ValueSpec)
    made,       \* the call of a constructor of S3 and its result (NewSpec)
    hresp,      \* the http.Response that httpClient.Do returned (RunSpec)
    built,      \* what run returned for it (RunSpec)
    conn        \* the connection of an attempt and its deadlines (ConnSpec)

vars == <<strategy, now, heap, ref, pc, wake, obs, form, err,
          RetryAlmostAllErrors, v4sign, req, wire, ret,
          exchange, fault, verdict, client, supplied,
          hreq, canon, amzRestore, status, doc, unclean,
          problems, made, hresp, built, conn>>
confVars == <<RetryAlmostAllErrors, v4sign, client, supplied>>
opVars == <<req, wire, ret>>
classVars == <<exchange, fault, verdict>>
libVars == <<problems, made, hresp, built, conn>>
callVars == <<hreq, canon, amzRestore, status, doc, unclean, libVars>>
\* No call of CheckValues, of a constructor or of run's check of the
\* response is modelled, and no connection.
NoLibCalls ==
    /\ problems = <<>> /\ made = <<>>
    /\ hresp = <<>> /\ built = <<>> /\ conn = <<>>
\* No call of the signer, of ParseAmzRestore or of IsUnclean is modelled.
NoCalls ==
    /\ hreq = <<>> /\ canon = <<>>
    /\ amzRestore = <<>> /\ status = <<>>
    /\ doc = <<>> /\ unclean = <<>>
    /\ NoLibCalls

----------------------------------------------------------------------------
(* Bounds of the model.                                                    *)

MaxTotal == 5
MaxDelay == 2
MaxMin == 2
MaxCalls == 4
MaxTime == 3

Callers == {1, 2}
Addr == {1, 2}
\* Spec runs one caller, PairSpec and LoopSpec run both.
Solo == {1}

\* The clock never has to pass this value before every retry loop that was
\* started has returned (see ClockCapNeverBinds).
ClockCap == MaxTime + Cardinality(Callers) * (MaxTotal + (MaxMin + 2) * (MaxDelay + 1) + 2)

\* TestAttemptTiming: Total 0.25e9 and Delay 0.1e9 nanoseconds, in units of 50ms.
TimingTotal == 5
TimingDelay == 2

\* PairSpec explores two callers at once, within smaller bounds.
MaxPairTotal == 2
MaxPairDelay == 1
MaxPairMin == 1
MaxPairCalls == 2
MaxPairTime == 1

\* The fields are signed (time.Duration, int): negative values are included.
Strategies ==
    [Total : (-1)..MaxTotal, Delay : (-1)..MaxDelay, Min : (-1)..MaxMin]
PairStrategies ==
    [Total : 0..MaxPairTotal, Delay : 0..MaxPairDelay, Min : 0..MaxPairMin]

Max(x, y) == IF x >= y THEN x ELSE y

----------------------------------------------------------------------------
(* package aws: FixedAttemptStrategy, FixedAttempt                         *)

\* The zero value of FixedAttempt, held by every unallocated address.
ZeroAttempt ==
    [strategy |-> [Total |-> 0, Delay |-> 0, Min |-> 0],
     last |-> 0, end |-> 0, force |-> FALSE, count |-> 0]

\* &FixedAttempt{...}: the allocation returns an address no caller holds.
NewAddrShared == CHOOSE a \in Addr : \A b \in Addr : a <= b
NewAddr == CHOOSE a \in Addr : \A c \in Callers : ref[c] # a

\* func (s FixedAttemptStrategy) Start() Attempt
StartNoForce(s, t) ==
    [strategy |-> s, last |-> t, end |-> t + s.Total, force |-> FALSE, count |-> 0]
Start(s, t) ==
    [strategy |-> s, last |-> t, end |-> t + s.Total, force |-> TRUE, count |-> 0]

\* func (a *FixedAttempt) nextSleep(now time.Time) time.Duration
nextSleepNoClamp(a, t) == a.strategy.Delay - (t - a.last)
nextSleep(a, t) ==
    LET sleep == a.strategy.Delay - (t - a.last)
    IN  IF sleep < 0 THEN 0 ELSE sleep

\* func (a *FixedAttempt) Next(err error) bool, up to its time.Sleep:
\* ret is the value Next returns, sleep the duration it sleeps first (0 when
\* it does not sleep), obj the object when Next returns or starts to sleep.
NextNoMin(a, t) ==
    LET sleep == nextSleep(a, t)
    IN  IF ~a.force /\ ~(t + sleep < a.end)
        THEN [ret |-> FALSE, sleep |-> 0, obj |-> a]
        ELSE [ret |-> TRUE,
              sleep |-> IF sleep > 0 /\ a.count > 0 THEN sleep ELSE 0,
              obj |-> [a EXCEPT !.force = FALSE]]
NextNoSleep(a, t) ==
    LET sleep == nextSleep(a, t)
    IN  IF ~a.force /\ ~(t + sleep < a.end) /\ a.strategy.Min <= a.count
        THEN [ret |-> FALSE, sleep |-> 0, obj |-> a]
        ELSE [ret |-> TRUE, sleep |-> 0, obj |-> [a EXCEPT !.force = FALSE]]
NextSleepAfterSecond(a, t) ==
    LET sleep == nextSleep(a, t)
    IN  IF ~a.force /\ ~(t + sleep < a.end) /\ a.strategy.Min <= a.count
        THEN [ret |-> FALSE, sleep |-> 0, obj |-> a]
        ELSE [ret |-> TRUE,
              sleep |-> IF sleep > 0 /\ a.count > 1 THEN sleep ELSE 0,
              obj |-> [a EXCEPT !.force = FALSE]]
NextNeverDeclines(a, t) ==
    LET sleep == nextSleep(a, t)
    IN  [ret |-> TRUE,
         sleep |-> IF sleep > 0 /\ a.count > 0 THEN sleep ELSE 0,
         obj |-> [a EXCEPT !.force = FALSE]]
Next(a, t) ==
    LET sleep == nextSleep(a, t)
    IN  IF ~a.force /\ ~(t + sleep < a.end) /\ a.strategy.Min <= a.count
        THEN [ret |-> FALSE, sleep |-> 0, obj |-> a]
        ELSE [ret |-> TRUE,
              sleep |-> IF sleep > 0 /\ a.count > 0 THEN sleep ELSE 0,
              obj |-> [a EXCEPT !.force = FALSE]]

\* The rest of a Next that returns true, run at time t (after the sleep,
\* when there was one): a.count++; a.last = now; return true.
NextResume(a, t) == [a EXCEPT !.count = @ + 1, !.last = t]

\* func (a *FixedAttempt) HasNext() bool: the value returned and the object
\* after the call.
HasNextPure(a, t) ==
    [ret |-> a.force \/ a.strategy.Min > a.count \/ t + nextSleep(a, t) < a.end,
     obj |-> a]
HasNextAlwaysForce(a, t) ==
    [ret |-> a.force \/ a.strategy.Min > a.count \/ t + nextSleep(a, t) < a.end,
     obj |-> [a EXCEPT !.force = TRUE]]
HasNextTouchesLast(a, t) ==
    IF a.force \/ a.strategy.Min > a.count
    THEN [ret |-> TRUE, obj |-> a]
    ELSE IF t + nextSleep(a, t) < a.end
         THEN [ret |-> TRUE, obj |-> [a EXCEPT !.force = TRUE, !.last = t]]
         ELSE [ret |-> FALSE, obj |-> a]
HasNext(a, t) ==
    IF a.force \/ a.strategy.Min > a.count
    THEN [ret |-> TRUE, obj |-> a]
    ELSE IF t + nextSleep(a, t) < a.end
         THEN [ret |-> TRUE, obj |-> [a EXCEPT !.force = TRUE]]
         ELSE [ret |-> FALSE, obj |-> a]

----------------------------------------------------------------------------
(* package s3: errors, and the classification the retry loops consult.     *)

\* A text is a sequence of words, so that strings.ToLower, strings.Contains
\* and strings.HasPrefix are computed on it as the code computes them.
ToLowerWord(w) ==
    CASE w = "Conflicting" -> "conflicting"
      [] w = "CONFLICTING" -> "conflicting"
      [] w = "Operation" -> "operation"
      [] w = "OPERATION" -> "operation"
      [] w = "A" -> "a"
      [] w = "HTTP" -> "http"
      [] w = "EOF" -> "eof"
      [] w = "S3" -> "s3"
      [] OTHER -> w
ToLower(s) == [i \in DOMAIN s |-> ToLowerWord(s[i])]
Contains(s, sub) ==
    \E i \in 0..(Len(s) - Len(sub)) : SubSeq(s, i + 1, i + Len(sub)) = sub
HasPrefix(s, p) == Len(s) >= Len(p) /\ SubSeq(s, 1, Len(p)) = p

\* The fixed texts the code compares error texts with.
MsgBrokenConnection ==
    <<"http:", "can't", "write", "HTTP", "request", "on", "broken", "connection">>
MsgCanceledWaiting ==
    <<"net/http:", "request", "canceled", "while", "waiting", "for", "connection">>
MsgClosedConnection == <<"use", "of", "closed", "network", "connection">>
\* The text of the error of a request the caller canceled in flight.
MsgCanceled == <<"net/http:", "request", "canceled">>
MsgConflict == <<"conflicting", "operation">>
MsgExists == <<"object", "already", "exists">>
MsgSSE == <<"S3", "did", "not", "honor", "encryption", "request">>

Messages ==
    {<<>>, MsgBrokenConnection, MsgCanceledWaiting, MsgClosedConnection,
     MsgCanceled, MsgConflict,
     <<"A", "Conflicting", "Operation", "is", "in", "progress">>,
     <<"conflicting", "bucket", "operation">>, MsgExists,
     <<"access", "denied">>}

\* The Server response header, letter by letter.
ServerHCP == <<"H", "C", "P">>
Servers ==
    {<<>>, ServerHCP, <<"H", "C", "P", "8">>, <<"H", "C">>,
     <<"h", "c", "p">>, <<"x", "H", "C", "P">>, <<"A", "m", "z">>}

NamedCodes == {"InternalError", "NoSuchUpload", "NoSuchBucket", "RequestTimeout"}
Codes == NamedCodes \cup {"", "OperationAborted", "AccessDenied"}
Statuses == {301, 400, 403, 404, 409, 429, 499, 500, 503, 599, 600}
RetriedOps == {"read", "write", "WSARecv", "WSASend", "ConnectEx"}
Ops == RetriedOps \cup {"dial", "close"}

\* An error value.  kind is its dynamic type: "s3" is *s3.Error, "dns" is
\* *net.DNSError, "op" is *net.OpError, "eof" is io.EOF or
\* io.ErrUnexpectedEOF, "other" is any other type; wrapped says it arrives
\* inside a *url.Error; timeout and temporary say that the value has the
\* method and that the method reports true; msg is the text of Error().
NoErr ==
    [kind |-> "nil", wrapped |-> FALSE, timeout |-> FALSE, temporary |-> FALSE,
     msg |-> <<>>, status |-> 0, code |-> "", server |-> <<>>, op |-> ""]

S3Faults ==
    [kind : {"s3"}, wrapped : BOOLEAN, timeout : {FALSE}, temporary : {FALSE},
     msg : Messages, status : Statuses, code : Codes, server : Servers,
     op : {""}]
OpFaults ==
    [kind : {"op"}, wrapped : BOOLEAN, timeout : BOOLEAN, temporary : BOOLEAN,
     msg : {<<"tcp:", "connection", "reset", "by", "peer">>}, status : {0},
     code : {""}, server : {<<>>}, op : Ops]
DNSFaults ==
    [kind : {"dns"}, wrapped : BOOLEAN, timeout : BOOLEAN, temporary : BOOLEAN,
     msg : {<<"lookup:", "no", "such", "host">>}, status : {0},
     code : {""}, server : {<<>>}, op : {""}]
EOFFaults ==
    [kind : {"eof"}, wrapped : BOOLEAN, timeout : {FALSE}, temporary : {FALSE},
     msg : {<<"EOF">>, <<"unexpected", "EOF">>}, status : {0},
     code : {""}, server : {<<>>}, op : {""}]
OtherFaults ==
    [kind : {"other"}, wrapped : BOOLEAN, timeout : BOOLEAN, temporary : BOOLEAN,
     msg : Messages \cup {MsgSSE}, status : {0},
     code : {""}, server : {<<>>}, op : {""}]
Faults == S3Faults \cup OpFaults \cup DNSFaults \cup EOFFaults \cup OtherFaults

\* func shouldRetryConflictError(err *Error) bool, called with a 409
shouldRetryConflictError(e) ==
    IF ~HasPrefix(e.server, ServerHCP) THEN TRUE
    ELSE e.code = "OperationAborted" /\ Contains(ToLower(e.msg), MsgConflict)

\* func shouldRetrySpecific(err error) bool
shouldRetrySpecificNoNet(e) ==
    IF e.wrapped /\ e.msg = MsgBrokenConnection THEN TRUE
    ELSE IF e.msg \in {MsgCanceledWaiting, MsgClosedConnection} THEN TRUE
    ELSE IF e.kind = "s3"
    THEN IF e.code \in NamedCodes THEN TRUE
         ELSE IF e.status >= 500 /\ e.status <= 599 THEN TRUE
         ELSE IF e.status = 429 THEN TRUE
         ELSE IF e.status = 409 THEN shouldRetryConflictError(e)
         ELSE e.status = 400 /\ e.code = ""
    ELSE FALSE
shouldRetrySpecificNo599(e) ==
    IF e.wrapped /\ e.msg = MsgBrokenConnection THEN TRUE
    ELSE IF e.timeout THEN TRUE
    ELSE IF e.temporary THEN TRUE
    ELSE IF e.msg \in {MsgCanceledWaiting, MsgClosedConnection} THEN TRUE
    ELSE IF e.kind = "eof" THEN TRUE
    ELSE IF e.kind = "dns" THEN TRUE
    ELSE IF e.kind = "op" THEN e.op \in RetriedOps
    ELSE IF e.kind = "s3"
    THEN IF e.code \in NamedCodes THEN TRUE
         ELSE IF e.status >= 500 /\ e.status < 599 THEN TRUE
         ELSE IF e.status = 429 THEN TRUE
         ELSE IF e.status = 409 THEN shouldRetryConflictError(e)
         ELSE e.status = 400 /\ e.code = ""
    ELSE FALSE
shouldRetrySpecific(e) ==
    IF e.wrapped /\ e.msg = MsgBrokenConnection THEN TRUE
    ELSE IF e.timeout THEN TRUE
    ELSE IF e.temporary THEN TRUE
    ELSE IF e.msg \in {MsgCanceledWaiting, MsgClosedConnection} THEN TRUE
    ELSE IF e.kind = "eof" THEN TRUE
    ELSE IF e.kind = "dns" THEN TRUE
    ELSE IF e.kind = "op" THEN e.op \in RetriedOps
    ELSE IF e.kind = "s3"
    THEN IF e.code \in NamedCodes THEN TRUE
         ELSE IF e.status >= 500 /\ e.status <= 599 THEN TRUE
         ELSE IF e.status = 429 THEN TRUE
         ELSE IF e.status = 409 THEN shouldRetryConflictError(e)
         ELSE e.status = 400 /\ e.code = ""
    ELSE FALSE

\* func shouldRetryAlmostAll(err error) bool
shouldRetryAlmostAllNoCodes(e) ==
    IF e.kind = "s3" /\ e.status < 500
    THEN IF e.status = 429 THEN TRUE
         ELSE IF e.status = 409 THEN shouldRetryConflictError(e)
         ELSE e.status = 400 /\ e.code = ""
    ELSE TRUE
shouldRetryAlmostAll(e) ==
    IF e.kind = "s3" /\ e.status < 500
    THEN IF e.code \in NamedCodes THEN TRUE
         ELSE IF e.status = 429 THEN TRUE
         ELSE IF e.status = 409 THEN shouldRetryConflictError(e)
         ELSE e.status = 400 /\ e.code = ""
    ELSE TRUE

\* func ShouldRetry(err error) bool
ShouldRetryConservative(e) == e # NoErr /\ shouldRetrySpecific(e)
ShouldRetryAlways(e) == e # NoErr
ShouldRetryNil(e) ==
    IF RetryAlmostAllErrors THEN shouldRetryAlmostAll(e)
    ELSE shouldRetrySpecific(e)
ShouldRetry(e) ==
    IF e = NoErr THEN FALSE
    ELSE IF RetryAlmostAllErrors THEN shouldRetryAlmostAll(e)
    ELSE shouldRetrySpecific(e)

\* The StatusCode of each error that a call of ShouldRetry(e) hands to
\* shouldRetryConflictError: the call sites `case http.StatusConflict` of
\* shouldRetrySpecific and of shouldRetryAlmostAll, reached when no earlier
\* return of the function has fired.
conflictCallsSpecificFrom409(e) ==
    IF e.wrapped /\ e.msg = MsgBrokenConnection THEN {}
    ELSE IF e.timeout THEN {}
    ELSE IF e.temporary THEN {}
    ELSE IF e.msg \in {MsgCanceledWaiting, MsgClosedConnection} THEN {}
    ELSE IF e.kind = "s3"
    THEN IF e.code \in NamedCodes THEN {}
         ELSE IF e.status >= 500 /\ e.status <= 599 THEN {}
         ELSE IF e.status = 429 THEN {}
         ELSE IF e.status >= 409 THEN {e.status}
         ELSE {}
    ELSE {}
conflictCallsSpecific(e) ==
    IF e.wrapped /\ e.msg = MsgBrokenConnection THEN {}
    ELSE IF e.timeout THEN {}
    ELSE IF e.temporary THEN {}
    ELSE IF e.msg \in {MsgCanceledWaiting, MsgClosedConnection} THEN {}
    ELSE IF e.kind = "s3"
    THEN IF e.code \in NamedCodes THEN {}
         ELSE IF e.status >= 500 /\ e.status <= 599 THEN {}
         ELSE IF e.status = 429 THEN {}
         ELSE IF e.status = 409 THEN {e.status}
         ELSE {}
    ELSE {}

conflictCallsAlmostAll(e) ==
    IF e.kind = "s3" /\ e.status < 500
    THEN IF e.code \in NamedCodes THEN {}
         ELSE IF e.status = 429 THEN {}
         ELSE IF e.status = 409 THEN {e.status}
         ELSE {}
    ELSE {}

conflictCalls(e) ==
    IF e = NoErr THEN {}
    ELSE IF RetryAlmostAllErrors THEN conflictCallsAlmostAll(e)
    ELSE conflictCallsSpecific(e)

\* if err.StatusCode != http.StatusConflict { panic(...) }
conflictPanics(code) == code # 409

\* Errs: the outcomes of an attempt that the retry loops are run with: no
\* error, and S3 errors as buildError makes them, with the Code of the
\* response body or, when the body holds none, with an empty Code.
MsgRaw == <<"HTTP", "response", "raw", "response">>
ErrInternal ==
    [NoErr EXCEPT !.kind = "s3", !.status = 500, !.code = "InternalError",
                  !.msg = <<"internal", "error">>]
ErrAccessDenied ==
    [NoErr EXCEPT !.kind = "s3", !.status = 403, !.code = "AccessDenied",
                  !.msg = <<"access", "denied">>]
ErrUnavailable == [NoErr EXCEPT !.kind = "s3", !.status = 503, !.msg = MsgRaw]
ErrNotFound == [NoErr EXCEPT !.kind = "s3", !.status = 404, !.msg = MsgRaw]
Errs == {NoErr, ErrInternal, ErrAccessDenied, ErrUnavailable, ErrNotFound}
\* What run makes of a response of status 201: its status is none of 200,
\* 204 and 206.
ErrCreated == [NoErr EXCEPT !.kind = "s3", !.status = 201, !.msg = MsgRaw]
\* A 403 without a body.
ErrForbidden == [NoErr EXCEPT !.kind = "s3", !.status = 403, !.msg = MsgRaw]

\* errors.New("SigV4 only"), fmt.Errorf("S3 Currently Unreachable") and
\* the fmt.Errorf of query: plain errors without Timeout or Temporary.
ErrSigV4Only == [NoErr EXCEPT !.kind = "other", !.msg = <<"SigV4", "only">>]
ErrUnreachable ==
    [NoErr EXCEPT !.kind = "other", !.msg = <<"S3", "Currently", "Unreachable">>]
ErrSSE == [NoErr EXCEPT !.kind = "other", !.msg = MsgSSE]
\* fmt.Errorf("bad S3 bucket: %q", req.bucket) of prepare
ErrBadBucket == [NoErr EXCEPT !.kind = "other", !.msg = <<"bad", "S3", "bucket">>]

\* Headers are a map from the key as written to the first value.
sseHeaderKey == "x-amz-server-side-encryption"
CanonicalMIMEHeaderKey(k) ==
    CASE k = "x-amz-server-side-encryption" -> "X-Amz-Server-Side-Encryption"
      [] k = "date" -> "Date"
      [] OTHER -> k
NoHeaders == <<>>
\* func AddHeaderSSE(headers map[string][]string)
AddHeaderSSE(h) ==
    [k \in DOMAIN h \cup {CanonicalMIMEHeaderKey(sseHeaderKey)} |->
        IF k = CanonicalMIMEHeaderKey(sseHeaderKey) THEN "AES256" ELSE h[k]]
\* func GetHeaderSSE(headers map[string][]string) string
GetHeaderSSE(h) ==
    IF CanonicalMIMEHeaderKey(sseHeaderKey) \in DOMAIN h
    THEN h[CanonicalMIMEHeaderKey(sseHeaderKey)]
    ELSE ""

\* The headers a request is made with: none, the header of AddHeaderSSE,
\* the same key with other values, and the key written in lower case.
RequestHeaders ==
    {NoHeaders, AddHeaderSSE(NoHeaders),
     CanonicalMIMEHeaderKey(sseHeaderKey) :> "aws:kms",
     CanonicalMIMEHeaderKey(sseHeaderKey) :> "",
     sseHeaderKey :> "AES256"}
\* net/http canonicalises the keys of a response.
ResponseHeaders ==
    {NoHeaders, AddHeaderSSE(NoHeaders),
     CanonicalMIMEHeaderKey(sseHeaderKey) :> "aws:kms"}

\* One call of query: the headers of the request, and what run returns:
\* its error and, without an error, the headers of the response.
Exchanges ==
    [headers : {NoHeaders}, runErr : Faults, response : {NoHeaders}]
    \cup [headers : RequestHeaders, runErr : {NoErr, ErrInternal},
          response : ResponseHeaders]
LoopExchanges ==
    [headers : {NoHeaders}, runErr : Errs, response : {NoHeaders}]

\* func (s3 *S3) query(req *request, resp interface{}) error, after run
queryNoCheck(x) == x.runErr
query(x) ==
    IF x.runErr # NoErr THEN x.runErr
    ELSE IF GetHeaderSSE(x.headers) # ""
            /\ GetHeaderSSE(x.response) # GetHeaderSSE(x.headers)
         THEN ErrSSE
         ELSE NoErr

----------------------------------------------------------------------------
\* The request of one attempt, and what the retry loops return.
UnitsPerSecond == 20
\* time.Format(time.RFC1123): the text of a time, to the second
FormatRFC1123(t) == t \div UnitsPerSecond

\* Maps (http.Header, url.Values) as functions: headers[k] = v, delete.
Put(h, k, v) == [x \in DOMAIN h \cup {k} |-> IF x = k THEN v ELSE h[x]]
Delete(h, k) == [x \in DOMAIN h \ {k} |-> h[x]]
\* strings.IndexAny(s, chars) >= 0, on a text given piece by piece
IndexAny(s, chars) == \E i \in DOMAIN s : s[i] \in chars
\* strings.Replace(s, old, new, -1), old being one piece of s
RECURSIVE Replace(_, _, _)
Replace(s, old, new) ==
    IF s = <<>> THEN <<>>
    ELSE (IF Head(s) = old THEN new ELSE <<Head(s)>>) \o Replace(Tail(s), old, new)

\* The client: the endpoints of its Region and the token of its Auth.
S3Endpoint == <<"https://", "s3.amazonaws.com">>
BucketEndpoint == <<"https://", "${bucket}", ".s3.amazonaws.com">>
Clients == [S3BucketEndpoint : {<<>>, BucketEndpoint}, token : {"", "token"}]
\* url.Parse(baseurl).Host
HostOf(baseurl) == IF baseurl = <<>> THEN <<>> ELSE Tail(baseurl)

\* What the caller of an operation supplies for its requests.
Descriptors ==
    [method : {"", "PUT"},
     bucket : {<<>>, <<"b">>, <<"a", "/", "b">>},
     path : {<<>>, <<"k">>, <<"/", "k">>},
     params : {NoHeaders, "lifecycle" :> ""},
     headers : {NoHeaders, "Content-Length" :> "3", AddHeaderSSE(NoHeaders)}]
\* &request{bucket: b.Name, params: params} of GetLifecycle, on a client
\* of a region without bucket endpoint and without token.
LoopDescriptor ==
    [method |-> "", bucket |-> <<"b">>, path |-> <<>>,
     params |-> "lifecycle" :> "", headers |-> NoHeaders]
LoopClient == [S3BucketEndpoint |-> <<>>, token |-> ""]

\* req := &request{...}: not prepared, no Date header, not signed.  shared
\* says that params and headers are still the caller's maps; dated and
\* signed hold the instant the Date header was taken at and the instant
\* the signing function was called at, when there is one; signpath is the
\* resource that sign was last given.
request(d) ==
    [method |-> d.method, bucket |-> d.bucket, path |-> d.path,
     params |-> d.params, headers |-> d.headers, baseurl |-> <<>>,
     prepared |-> FALSE, shared |-> TRUE,
     dated |-> <<>>, signed |-> <<>>, signpath |-> <<>>, payload |-> <<>>]
NewRequest == request(LoopDescriptor)

\* The payload of a request is nil (<<>>) or one io.Reader, known by its
\* identity: 0 is the reader of the caller (r io.Reader, or the
\* bytes.NewBuffer(data) of Put), n > 0 is the reader that the body of a
\* retry loop makes for its n-th transmission.
SuppliedReader == <<0>>
\* payload: bytes.NewReader(data), in the body of the loop
NewReaderOnce(w) == <<1>>
NewReader(w) == <<w.sent + 1>>

\* prepare: params := make(url.Values); headers := make(http.Header); the
\* copies; req.params = params; req.headers = headers
KeepCallersMaps(r) == r
Private(r) == [r EXCEPT !.shared = FALSE]

\* prepare returns fmt.Errorf("bad S3 bucket: %q", req.bucket)
prepareFails(r) ==
    /\ ~r.prepared
    /\ r.bucket # <<>>
    /\ client.S3BucketEndpoint # <<>>
    /\ IndexAny(r.bucket, {"/", ":", "@"})

\* The one-time part of prepare: if !req.prepared { ... }
normalize(r) ==
    LET p == Private(r)
        path == IF HasPrefix(r.path, <<"/">>) THEN r.path ELSE <<"/">> \o r.path
        pathStyle == client.S3BucketEndpoint = <<>>
    IN  [p EXCEPT
          !.prepared = TRUE,
          !.method = IF r.method = "" THEN "GET" ELSE r.method,
          !.path = IF r.bucket # <<>> /\ pathStyle
                   THEN <<"/">> \o r.bucket \o path ELSE path,
          !.baseurl = IF r.bucket = <<>> THEN r.baseurl
                      ELSE IF pathStyle THEN S3Endpoint
                      ELSE IF prepareFails(r) THEN client.S3BucketEndpoint
                      ELSE Replace(client.S3BucketEndpoint, "${bucket}", r.bucket)]
\* The local variable signpath of prepare when it reaches the signing.
signpathOf(r) ==
    IF r.prepared THEN r.path
    ELSE LET path == IF HasPrefix(r.path, <<"/">>) THEN r.path
                     ELSE <<"/">> \o r.path
         IN  IF r.bucket # <<>> THEN <<"/">> \o r.bucket \o path ELSE path

\* func (s3 *S3) prepare(req *request) error, at time t: the request after
\* the call
prepareStale(r, t) == [r EXCEPT !.prepared = TRUE]
prepare(r, t) ==
    IF prepareFails(r) THEN normalize(r)
    ELSE LET n == IF r.prepared THEN r ELSE normalize(r)
             h1 == Put(n.headers, "Host", HostOf(n.baseurl))
             h2 == Put(h1, "Date", FormatRFC1123(t))
             h3 == IF client.token # ""
                   THEN Put(h2, "X-Amz-Security-Token", client.token) ELSE h2
         IN  [n EXCEPT !.headers = h3,
                       !.dated = <<t>>,
                       !.signed = IF v4sign THEN @ ELSE <<t>>,
                       !.signpath = IF v4sign THEN @ ELSE signpathOf(r)]
\* func (s3 *S3) run(req *request, ...), up to httpClient.Do, at time t
run(r, t) ==
    [r EXCEPT !.headers = Delete(@, "Content-Length"),
              !.signed = IF v4sign THEN <<t>> ELSE @]

NoWire == [sent |-> 0, at |-> 0, request |-> NewRequest, bodies |-> <<>>]
\* httpClient.Do(&hreq): request r goes out at time t; sent counts the
\* transmissions of the caller, and bodies lists the payloads that they
\* read from (hreq.Body = ioutil.NopCloser(req.payload)).
Transmit(w, r, t) ==
    [sent |-> w.sent + 1, at |-> t, request |-> r,
     bodies |-> Append(w.bodies, r.payload)]

NoRet == [done |-> FALSE, exists |-> FALSE, err |-> NoErr]
Return(e) == [done |-> TRUE, exists |-> FALSE, err |-> e]

\* ClassifySpec: nothing is under classification, nothing was answered.
NoExchange == [headers |-> NoHeaders, runErr |-> NoErr, response |-> NoHeaders]
NoVerdict == [permissive |-> <<>>, conservative |-> <<>>, conflict |-> {}]

----------------------------------------------------------------------------
(* What a caller has observed of its Attempt.                              *)

NoObs ==
    [op |-> "none", res |-> FALSE, licensed |-> FALSE, calls |-> 0,
     exhausted |-> FALSE, late |-> FALSE, prevLast |-> 0, slept |-> FALSE,
     slack |-> FALSE]

Started(c) == ref[c] # 0
Obj(c) == heap[ref[c]]

\* The observation after a Next call on object a at time t with outcome r.
ObsNext(o, a, t, r) ==
    [o EXCEPT !.op = "Next", !.res = r.ret,
              !.licensed = (o.op = "HasNext" /\ o.res),
              !.calls = @ + 1,
              !.exhausted = @ \/ ~r.ret,
              !.late = IF o.calls = 0 THEN t >= a.end ELSE @,
              !.prevLast = a.last,
              !.slept = (r.sleep > 0)]

ObsHasNext(o, r) == [o EXCEPT !.op = "HasNext", !.res = r.ret]

----------------------------------------------------------------------------
(* The clock.                                                              *)

Waiting(c) == pc[c] \in {"sleeping", "query"} /\ wake[c] > now

\* Time passes.  A caller that is not blocked in a sleep, or whose sleep
\* is over, lets time pass unused: its slack flag records that.
Tick ==
    /\ now < ClockCap
    /\ now < MaxTime \/ \E c \in Callers : Waiting(c)
    /\ now' = now + 1
    /\ obs' = [c \in Callers |->
                 IF Started(c) /\ ~Waiting(c)
                 THEN [obs[c] EXCEPT !.slack = TRUE] ELSE obs[c]]
    /\ UNCHANGED <<strategy, heap, ref, pc, wake, form, err, confVars, opVars, classVars, callVars>>

----------------------------------------------------------------------------
(* Spec: callers that call Start, Next and HasNext in any order.           *)

InitWith(S) ==
    /\ strategy \in S
    /\ now = 0
    /\ heap = [a \in Addr |-> ZeroAttempt]
    /\ ref = [c \in Callers |-> 0]
    /\ pc = [c \in Callers |-> "idle"]
    /\ wake = [c \in Callers |-> 0]
    /\ obs = [c \in Callers |-> NoObs]
    /\ form = [c \in Callers |-> "none"]
    /\ err = [c \in Callers |-> NoErr]
    /\ RetryAlmostAllErrors = TRUE
    /\ v4sign = FALSE
    /\ client = LoopClient
    /\ supplied = LoopDescriptor
    /\ req = [c \in Callers |-> NewRequest]
    /\ wire = [c \in Callers |-> NoWire]
    /\ ret = [c \in Callers |-> NoRet]
    /\ exchange = NoExchange
    /\ fault = NoErr
    /\ verdict = NoVerdict
    /\ NoCalls

\* attempt := strategy.Start()
CallStart(c) ==
    /\ ~Started(c)
    /\ pc[c] = "idle"
    /\ LET a == NewAddr
       IN  /\ heap' = [heap EXCEPT ![a] = Start(strategy, now)]
           /\ ref' = [ref EXCEPT ![c] = a]
    /\ obs' = [obs EXCEPT ![c] = [NoObs EXCEPT !.op = "Start"]]
    /\ UNCHANGED <<strategy, now, pc, wake, form, err, confVars, opVars, classVars, callVars>>

\* attempt.Next(err), up to the return or the start of the sleep
CallNext(c) ==
    /\ Started(c)
    /\ pc[c] = "idle"
    /\ obs[c].calls < MaxCalls
    /\ LET a == Obj(c)
           r == Next(a, now)
       IN  /\ obs' = [obs EXCEPT ![c] = ObsNext(@, a, now, r)]
           /\ IF r.ret /\ r.sleep > 0
              THEN /\ heap' = [heap EXCEPT ![ref[c]] = r.obj]
                   /\ pc' = [pc EXCEPT ![c] = "sleeping"]
                   /\ wake' = [wake EXCEPT ![c] = now + r.sleep]
              ELSE /\ heap' = [heap EXCEPT ![ref[c]] =
                                 IF r.ret THEN NextResume(r.obj, now) ELSE r.obj]
                   /\ UNCHANGED <<pc, wake>>
    /\ UNCHANGED <<strategy, now, ref, form, err, confVars, opVars, classVars, callVars>>

\* time.Sleep(sleep) is over: now = time.Now(); a.count++; a.last = now
WakeNext(c) ==
    /\ pc[c] = "sleeping"
    /\ form[c] = "none"
    /\ now >= wake[c]
    /\ heap' = [heap EXCEPT ![ref[c]] = NextResume(@, now)]
    /\ pc' = [pc EXCEPT ![c] = "idle"]
    /\ UNCHANGED <<strategy, now, ref, wake, obs, form, err, confVars, opVars, classVars, callVars>>

\* attempt.HasNext()
CallHasNext(c) ==
    /\ Started(c)
    /\ pc[c] = "idle"
    /\ LET r == HasNext(Obj(c), now)
       IN  /\ heap' = [heap EXCEPT ![ref[c]] = r.obj]
           /\ obs' = [obs EXCEPT ![c] = ObsHasNext(@, r)]
    /\ UNCHANGED <<strategy, now, ref, pc, wake, form, err, confVars, opVars, classVars, callVars>>

Init == InitWith(Strategies)

Step ==
    \/ Tick
    \/ \E c \in Solo : CallStart(c)
    \/ \E c \in Solo : CallNext(c)
    \/ \E c \in Solo : WakeNext(c)
    \/ \E c \in Solo : CallHasNext(c)

Spec == Init /\ [][Step]_vars

----------------------------------------------------------------------------
(* PairSpec: two callers, each with its own Attempt of the one strategy.   *)

PairInit == InitWith(PairStrategies)

\* Tick and CallNext within the bounds of PairSpec.
PairTick ==
    /\ now < MaxPairTime \/ \E c \in Callers : Waiting(c)
    /\ Tick

PairCallNext(c) ==
    /\ obs[c].calls < MaxPairCalls
    /\ CallNext(c)

PairStep ==
    \/ PairTick
    \/ \E c \in Callers : CallStart(c)
    \/ \E c \in Callers : PairCallNext(c)
    \/ \E c \in Callers : WakeNext(c)
    \/ \E c \in Callers : CallHasNext(c)

PairSpec == PairInit /\ [][PairStep]_vars

----------------------------------------------------------------------------
(* LoopSpec: a caller runs one of the retry loops of package s3.           *)
(*   PutLifecycle:  for attempt := Start(); attempt.Next(err); {           *)
(*                      err = query(req)                                   *)
(*                      if ShouldRetry(err) && attempt.HasNext() {continue} *)
(*                      return err }                                       *)
(*                  panic("unreachable")                                   *)
(*   GetLifecycle:  for attempt := Start(); attempt.Next(err); {           *)
(*                      err = query(req)                                   *)
(*                      if !ShouldRetry(err) { break } }                   *)
(*                  return err                                             *)
(*   Exists:        for attempt := Start(); attempt.Next(); {              *)
(*                      prepare(req); resp, err := run(req)                *)
(*                      if ShouldRetry(err) && attempt.HasNext() {continue} *)
(*                      return (false, nil) for a 403 or 404 *Error,       *)
(*                             (false, err) for another error,             *)
(*                             (true, nil) without error }                 *)
(*                  return false, "S3 Currently Unreachable"               *)
(* A query takes time: the clock has advanced when it returns.             *)

Forms == {"PutLifecycle", "GetLifecycle", "Exists"}
\* The operations that call query once, with the reader of their caller.
SingleQuery == {"Put", "PutReader", "PutReaderHeaderTimeout", "PutBucketSubresource"}
\* The loops that return from their body, with panic("unreachable") after
\* the loop, and the loops that break and return after the loop.
ReturnInLoop == {"PutLifecycle", "PutObjectTagging", "RestoreObject"}
BreakLoop == {"GetLifecycle", "GetObjectTagging"}
Operations == ReturnInLoop \cup BreakLoop \cup {"Exists"} \cup SingleQuery
\* The operations that begin with: if !b.S3.v4sign { return ... }
V4OnlyLifecycle == {"PutLifecycle", "GetLifecycle"}
V4Only ==
    {"PutLifecycle", "GetLifecycle", "RestoreObject", "PutObjectTagging",
     "GetObjectTagging"}

\* What run can return to the loop of form f.  Exists sends a HEAD, whose
\* response has no body, so that buildError finds no Code in it; the
\* other loops get the errors of a response whose body names a Code.
AttemptExchanges(f) ==
    IF f = "Exists"
    THEN {x \in LoopExchanges : x.runErr.code = ""}
         \cup {[headers |-> NoHeaders, runErr |-> e, response |-> NoHeaders] :
                  e \in {ErrForbidden, ErrCreated}}
    ELSE {x \in LoopExchanges : x.runErr = NoErr \/ x.runErr.code # ""}

\* More attempts than a loop makes under any of the strategies: an attempt
\* takes time, so that at most Total begin before the end, by when Min
\* attempts have been made (see AttemptCapNeverBinds).
AttemptCap == Max(MaxTotal, MaxMin) + 1

LoopInit ==
    /\ strategy \in Strategies
    /\ now = 0
    /\ heap = [a \in Addr |-> ZeroAttempt]
    /\ ref = [c \in Callers |-> 0]
    /\ form \in [Callers -> Forms \cup {"none"}]
    /\ \A c \in Callers : form[c] \in Forms <=> c \in Solo
    /\ pc = [c \in Callers |-> IF c \in Solo THEN "entry" ELSE "idle"]
    /\ wake = [c \in Callers |-> 0]
    /\ obs = [c \in Callers |-> NoObs]
    /\ err = [c \in Callers |-> NoErr]
    /\ RetryAlmostAllErrors = TRUE
    /\ v4sign \in BOOLEAN
    /\ client = LoopClient
    /\ supplied = LoopDescriptor
    /\ req = [c \in Callers |-> NewRequest]
    /\ wire = [c \in Callers |-> NoWire]
    /\ ret = [c \in Callers |-> NoRet]
    /\ exchange = NoExchange
    /\ fault = NoErr
    /\ verdict = NoVerdict
    /\ NoCalls

\* req := &request{...}; prepare(req); run(req) up to the transmission
requestOf(c) ==
    [NewRequest EXCEPT !.payload =
        IF form[c] \in ReturnInLoop THEN NewReader(wire[c])
        ELSE IF form[c] \in SingleQuery THEN SuppliedReader
        ELSE <<>>]
Send(c) ==
    LET r == run(prepare(requestOf(c), now), now)
    IN  /\ req' = [req EXCEPT ![c] = r]
        /\ wire' = [wire EXCEPT ![c] = Transmit(@, r, now)]

\* if !b.S3.v4sign { return errors.New("SigV4 only") }
\* attempt := b.S3.AttemptStrategy.Start()
LoopStart(c) ==
    /\ pc[c] = "entry"
    /\ form[c] \notin SingleQuery
    /\ IF form[c] \in V4Only /\ ~v4sign
       THEN /\ ret' = [ret EXCEPT ![c] = Return(ErrSigV4Only)]
            /\ pc' = [pc EXCEPT ![c] = "done"]
            /\ UNCHANGED <<heap, ref, obs>>
       ELSE /\ LET a == NewAddr
               IN  /\ heap' = [heap EXCEPT ![a] = Start(strategy, now)]
                   /\ ref' = [ref EXCEPT ![c] = a]
            /\ obs' = [obs EXCEPT ![c] = [NoObs EXCEPT !.op = "Start"]]
            /\ pc' = [pc EXCEPT ![c] = "next"]
            /\ UNCHANGED ret
    /\ UNCHANGED <<strategy, now, wake, form, err, req, wire, confVars, classVars, callVars>>

\* the loop condition attempt.Next(err), up to its return or its sleep;
\* when it declines, the code after the loop runs
LoopNext(c) ==
    /\ pc[c] = "next"
    /\ Obj(c).count < AttemptCap
    /\ LET a == Obj(c)
           r == Next(a, now)
       IN  /\ obs' = [obs EXCEPT ![c] = ObsNext(@, a, now, r)]
           /\ IF ~r.ret
              THEN /\ pc' = [pc EXCEPT ![c] =
                               IF form[c] \in ReturnInLoop THEN "panic" ELSE "done"]
                   /\ ret' = [ret EXCEPT ![c] =
                               IF form[c] \in BreakLoop THEN Return(err[c])
                               ELSE IF form[c] = "Exists" THEN Return(ErrUnreachable)
                               ELSE @]
                   /\ UNCHANGED <<heap, wake, req, wire>>
              ELSE IF r.sleep > 0
              THEN /\ heap' = [heap EXCEPT ![ref[c]] = r.obj]
                   /\ pc' = [pc EXCEPT ![c] = "sleeping"]
                   /\ wake' = [wake EXCEPT ![c] = now + r.sleep]
                   /\ UNCHANGED <<req, wire, ret>>
              ELSE /\ heap' = [heap EXCEPT ![ref[c]] = NextResume(r.obj, now)]
                   /\ pc' = [pc EXCEPT ![c] = "query"]
                   /\ wake' = [wake EXCEPT ![c] = now + 1]
                   /\ Send(c)
                   /\ UNCHANGED ret
    /\ UNCHANGED <<strategy, now, ref, form, err, confVars, classVars, callVars>>

\* the sleep of Next is over; Next returns true and the request is sent
LoopWake(c) ==
    /\ pc[c] = "sleeping"
    /\ form[c] \in Forms
    /\ now >= wake[c]
    /\ heap' = [heap EXCEPT ![ref[c]] = NextResume(@, now)]
    /\ pc' = [pc EXCEPT ![c] = "query"]
    /\ wake' = [wake EXCEPT ![c] = now + 1]
    /\ Send(c)
    /\ UNCHANGED <<strategy, now, ref, obs, form, err, ret, confVars, classVars, callVars>>

\* What Exists returns for the error e of the attempt it stops at.
ExistsReturn(e) ==
    IF e # NoErr
    THEN IF e.kind = "s3" /\ ~e.wrapped /\ e.status \in {403, 404}
         THEN [done |-> TRUE, exists |-> FALSE, err |-> NoErr]
         ELSE [done |-> TRUE, exists |-> FALSE, err |-> e]
    ELSE [done |-> TRUE, exists |-> TRUE, err |-> NoErr]

\* err = b.S3.query(req, ...) returns, and the loop body decides
LoopAttempt(c) ==
    /\ pc[c] = "query"
    /\ form[c] \notin SingleQuery
    /\ now >= wake[c]
    /\ \E x \in AttemptExchanges(form[c]) :
        LET e == query(x)
            stop == IF form[c] = "Exists" THEN ExistsReturn(e) ELSE Return(e)
        IN  /\ err' = [err EXCEPT ![c] = e]
            /\ IF form[c] \notin BreakLoop /\ ShouldRetry(e)
               THEN LET r == HasNext(Obj(c), now)
                    IN  /\ heap' = [heap EXCEPT ![ref[c]] = r.obj]
                        /\ obs' = [obs EXCEPT ![c] = ObsHasNext(@, r)]
                        /\ pc' = [pc EXCEPT ![c] = IF r.ret THEN "next" ELSE "done"]
                        /\ ret' = [ret EXCEPT ![c] = IF r.ret THEN @ ELSE stop]
               ELSE /\ pc' = [pc EXCEPT ![c] = IF ShouldRetry(e) THEN "next" ELSE "done"]
                    /\ ret' = [ret EXCEPT ![c] = IF ShouldRetry(e) THEN @ ELSE stop]
                    /\ UNCHANGED <<heap, obs>>
    /\ UNCHANGED <<strategy, now, ref, wake, form, req, wire, confVars, classVars, callVars>>

LoopStep ==
    \/ Tick
    \/ \E c \in Solo : LoopStart(c)
    \/ \E c \in Solo : LoopNext(c)
    \/ \E c \in Solo : LoopWake(c)
    \/ \E c \in Solo : LoopAttempt(c)

\* The goroutine of a call is scheduled, and time passes.
LoopFairness ==
    /\ WF_vars(Tick)
    /\ \A c \in Solo : WF_vars(LoopStart(c) \/ LoopNext(c) \/ LoopWake(c) \/ LoopAttempt(c))

LoopSpec == LoopInit /\ [][LoopStep]_vars /\ LoopFairness

\* PolicyLoopSpec: the same loops under either value of the package
\* variable RetryAlmostAllErrors, with strategies of a short Total.
PolicyStrategies ==
    [Total : 0..MaxPairTotal, Delay : 0..MaxDelay, Min : 0..MaxMin]
PolicyLoopInit ==
    /\ strategy \in PolicyStrategies
    /\ now = 0
    /\ heap = [a \in Addr |-> ZeroAttempt]
    /\ ref = [c \in Callers |-> 0]
    /\ form \in [Callers -> Forms \cup {"none"}]
    /\ \A c \in Callers : form[c] \in Forms <=> c \in Solo
    /\ pc = [c \in Callers |-> IF c \in Solo THEN "entry" ELSE "idle"]
    /\ wake = [c \in Callers |-> 0]
    /\ obs = [c \in Callers |-> NoObs]
    /\ err = [c \in Callers |-> NoErr]
    /\ RetryAlmostAllErrors \in BOOLEAN
    /\ v4sign \in BOOLEAN
    /\ client = LoopClient
    /\ supplied = LoopDescriptor
    /\ req = [c \in Callers |-> NewRequest]
    /\ wire = [c \in Callers |-> NoWire]
    /\ ret = [c \in Callers |-> NoRet]
    /\ exchange = NoExchange
    /\ fault = NoErr
    /\ verdict = NoVerdict
    /\ NoCalls

PolicyLoopSpec == PolicyLoopInit /\ [][LoopStep]_vars /\ LoopFairness

\* OperationSpec: a caller calls any one of the operations, those that
\* call query once included, on a client with or without V4 signing.
OperationInit ==
    /\ strategy \in PolicyStrategies
    /\ now = 0
    /\ heap = [a \in Addr |-> ZeroAttempt]
    /\ ref = [c \in Callers |-> 0]
    /\ form \in [Callers -> Operations \cup {"none"}]
    /\ \A c \in Callers : form[c] \in Operations <=> c \in Solo
    /\ pc = [c \in Callers |-> IF c \in Solo THEN "entry" ELSE "idle"]
    /\ wake = [c \in Callers |-> 0]
    /\ obs = [c \in Callers |-> NoObs]
    /\ err = [c \in Callers |-> NoErr]
    /\ RetryAlmostAllErrors = TRUE
    /\ v4sign \in BOOLEAN
    /\ client = LoopClient
    /\ supplied = LoopDescriptor
    /\ req = [c \in Callers |-> NewRequest]
    /\ wire = [c \in Callers |-> NoWire]
    /\ ret = [c \in Callers |-> NoRet]
    /\ exchange = NoExchange
    /\ fault = NoErr
    /\ verdict = NoVerdict
    /\ NoCalls

\* req := &request{..., payload: r}; b.S3.query(req, nil), up to the
\* transmission
QueryOnce(c) ==
    /\ pc[c] = "entry"
    /\ form[c] \in SingleQuery
    /\ pc' = [pc EXCEPT ![c] = "query"]
    /\ wake' = [wake EXCEPT ![c] = now + 1]
    /\ Send(c)
    /\ UNCHANGED <<strategy, now, heap, ref, obs, form, err, ret, confVars,
                   classVars, callVars>>

\* return b.S3.query(req, nil)
ReturnOnce(c) ==
    /\ pc[c] = "query"
    /\ form[c] \in SingleQuery
    /\ now >= wake[c]
    /\ \E x \in LoopExchanges :
        /\ err' = [err EXCEPT ![c] = query(x)]
        /\ ret' = [ret EXCEPT ![c] = Return(query(x))]
    /\ pc' = [pc EXCEPT ![c] = "done"]
    /\ UNCHANGED <<strategy, now, heap, ref, wake, obs, form, req, wire,
                   confVars, classVars, callVars>>

OperationStep ==
    \/ Tick
    \/ \E c \in Solo : LoopStart(c)
    \/ \E c \in Solo : LoopNext(c)
    \/ \E c \in Solo : LoopWake(c)
    \/ \E c \in Solo : LoopAttempt(c)
    \/ \E c \in Solo : QueryOnce(c)
    \/ \E c \in Solo : ReturnOnce(c)

OperationSpec == OperationInit /\ [][OperationStep]_vars

----------------------------------------------------------------------------
(* RequestSpec: an operation makes the request of an attempt from what its *)
(* caller supplied, prepares it and runs it, attempt after attempt; and    *)
(* prepare may be called again on the request it has prepared.             *)

RequestInit ==
    /\ strategy = [Total |-> 0, Delay |-> 0, Min |-> 0]
    /\ now = 0
    /\ heap = [a \in Addr |-> ZeroAttempt]
    /\ ref = [c \in Callers |-> 0]
    /\ pc = [c \in Callers |-> IF c \in Solo THEN "made" ELSE "idle"]
    /\ wake = [c \in Callers |-> 0]
    /\ obs = [c \in Callers |-> NoObs]
    /\ form = [c \in Callers |-> "none"]
    /\ err = [c \in Callers |-> NoErr]
    /\ RetryAlmostAllErrors = TRUE
    /\ v4sign \in BOOLEAN
    /\ client \in Clients
    /\ supplied \in Descriptors
    /\ req = [c \in Callers |-> request(supplied)]
    /\ wire = [c \in Callers |-> NoWire]
    /\ ret = [c \in Callers |-> NoRet]
    /\ exchange = NoExchange
    /\ fault = NoErr
    /\ verdict = NoVerdict
    /\ NoCalls

\* A write through req.headers reaches the caller's map while the request
\* still holds that map.
Sync(d, r) ==
    IF r.shared THEN [d EXCEPT !.headers = r.headers, !.params = r.params]
    ELSE d

\* req := &request{...}, for the next attempt
MakeRequest(c) ==
    /\ pc[c] \in {"prepared", "ran"}
    /\ wire[c].sent < MaxCalls
    /\ req' = [req EXCEPT ![c] = request(supplied)]
    /\ err' = [err EXCEPT ![c] = NoErr]
    /\ pc' = [pc EXCEPT ![c] = "made"]
    /\ UNCHANGED <<strategy, now, heap, ref, wake, obs, form, wire, ret,
                   confVars, classVars, callVars>>

\* err = s3.prepare(req)
CallPrepare(c) ==
    /\ pc[c] \in {"made", "prepared", "ran"}
    /\ req' = [req EXCEPT ![c] = prepare(@, now)]
    /\ supplied' = Sync(supplied, req'[c])
    /\ err' = [err EXCEPT ![c] = IF prepareFails(req[c]) THEN ErrBadBucket ELSE NoErr]
    /\ pc' = [pc EXCEPT ![c] = "prepared"]
    /\ UNCHANGED <<strategy, now, heap, ref, wake, obs, form, wire, ret,
                   RetryAlmostAllErrors, v4sign, client, classVars, callVars>>

\* s3.run(req, resp), up to httpClient.Do
CallRun(c) ==
    /\ pc[c] = "prepared"
    /\ err[c] = NoErr
    /\ wire[c].sent < MaxCalls
    /\ req' = [req EXCEPT ![c] = run(@, now)]
    /\ supplied' = Sync(supplied, req'[c])
    /\ wire' = [wire EXCEPT ![c] = Transmit(@, req'[c], now)]
    /\ pc' = [pc EXCEPT ![c] = "ran"]
    /\ UNCHANGED <<strategy, now, heap, ref, wake, obs, form, err, ret,
                   RetryAlmostAllErrors, v4sign, client, classVars, callVars>>

RequestStep ==
    \/ Tick
    \/ \E c \in Solo : MakeRequest(c)
    \/ \E c \in Solo : CallPrepare(c)
    \/ \E c \in Solo : CallRun(c)

RequestSpec == RequestInit /\ [][RequestStep]_vars

----------------------------------------------------------------------------
(* ClassifySpec: one call of query returns, and the caller asks            *)
(* ShouldRetry about the error, under the policy in force; the             *)
(* application may switch the policy at any time.                          *)

ClassifyInit ==
    /\ strategy = [Total |-> 0, Delay |-> 0, Min |-> 0]
    /\ now = 0
    /\ heap = [a \in Addr |-> ZeroAttempt]
    /\ ref = [c \in Callers |-> 0]
    /\ pc = [c \in Callers |-> IF c \in Solo THEN "call" ELSE "idle"]
    /\ wake = [c \in Callers |-> 0]
    /\ obs = [c \in Callers |-> NoObs]
    /\ form = [c \in Callers |-> "none"]
    /\ err = [c \in Callers |-> NoErr]
    /\ RetryAlmostAllErrors = TRUE
    /\ v4sign = FALSE
    /\ client = LoopClient
    /\ supplied = LoopDescriptor
    /\ req = [c \in Callers |-> NewRequest]
    /\ wire = [c \in Callers |-> NoWire]
    /\ ret = [c \in Callers |-> NoRet]
    /\ exchange \in Exchanges
    /\ fault = NoErr
    /\ verdict = NoVerdict
    /\ NoCalls

\* err := s3.query(req, resp)
CallQuery(c) ==
    /\ pc[c] = "call"
    /\ fault' = query(exchange)
    /\ pc' = [pc EXCEPT ![c] = "returned"]
    /\ UNCHANGED <<strategy, now, heap, ref, wake, obs, form, err,
                   confVars, opVars, exchange, verdict, callVars>>

\* ShouldRetry(err)
CallShouldRetry(c) ==
    /\ pc[c] = "returned"
    /\ verdict' = IF RetryAlmostAllErrors
                  THEN [verdict EXCEPT !.permissive = <<ShouldRetry(fault)>>,
                                       !.conflict = @ \cup conflictCalls(fault)]
                  ELSE [verdict EXCEPT !.conservative = <<ShouldRetry(fault)>>,
                                       !.conflict = @ \cup conflictCalls(fault)]
    /\ UNCHANGED <<strategy, now, heap, ref, pc, wake, obs, form, err,
                   confVars, opVars, exchange, fault, callVars>>

\* s3.RetryAlmostAllErrors = b
SetRetryAlmostAllErrors ==
    /\ \E b \in BOOLEAN : RetryAlmostAllErrors' = b
    /\ RetryAlmostAllErrors' # RetryAlmostAllErrors
    /\ UNCHANGED <<strategy, now, heap, ref, pc, wake, obs, form, err,
                   v4sign, client, supplied, opVars, classVars, callVars>>

ClassifyStep ==
    \/ \E c \in Solo : CallQuery(c)
    \/ \E c \in Solo : CallShouldRetry(c)
    \/ SetRetryAlmostAllErrors

ClassifySpec == ClassifyInit /\ [][ClassifyStep]_vars

\* What ShouldRetry has answered about the error under each policy.
Permissive == {verdict.permissive[i] : i \in DOMAIN verdict.permissive}
Conservative == {verdict.conservative[i] : i \in DOMAIN verdict.conservative}
Answers == Permissive \cup Conservative

\* C35: the permissive policy retries everything the conservative policy
\* retries: an error for which shouldRetrySpecific answers true gets true
\* from shouldRetryAlmostAll as well, S3 errors whose message equals one of
\* the fixed transport texts included.
ConservativeWithinPermissive ==
    \A q \in Conservative : q => \A p \in Permissive : p

\* C36: the panic of shouldRetryConflictError is never reached through
\* ShouldRetry: under both policies every error handed to
\* shouldRetryConflictError has StatusCode 409.
ConflictCheckNeverPanics ==
    \A s \in verdict.conflict : s = 409 /\ ~conflictPanics(s)

\* ShouldRetry has been asked under both policies about a 409 whose Code is
\* no named one, and has handed it to shouldRetryConflictError.
ConflictCheckNeverPanicsWitness ==
    /\ fault.kind = "s3" /\ fault.status = 409
    /\ fault.code \notin NamedCodes
    /\ Permissive # {} /\ Conservative # {}
    /\ verdict.conflict = {409}

----------------------------------------------------------------------------
(* Properties of the retry loops, checked under LoopSpec.                  *)

\* The bound on the attempts never stops a loop at its condition.
AttemptCapNeverBinds ==
    \A c \in Solo : pc[c] = "next" => Obj(c).count < AttemptCap

\* C11: when a retried operation stops because the Attempt declines a
\* further attempt (Next returned false, or HasNext returned false), the
\* error it returns is exactly the error of its last attempt.
LastErrorSurfaced ==
    \A c \in Callers :
        (ret[c].done /\ obs[c].op \in {"Next", "HasNext"} /\ ~obs[c].res)
            => ret[c].err = err[c]

\* Exists gave up after a second attempt that failed with a retryable
\* error, and returned that error.
LastErrorSurfacedWitness ==
    \E c \in Callers :
        /\ form[c] = "Exists" /\ ret[c].done
        /\ obs[c].op = "HasNext" /\ ~obs[c].res
        /\ Obj(c).count >= 2
        /\ ShouldRetry(err[c]) /\ ret[c].err = err[c]

\* C29: the code after a loop of the form
\*   for attempt.Next(err) { ...; if ShouldRetry(err) && attempt.HasNext()
\*   { continue }; return ... }
\* is never executed: the panic("unreachable") is never reached and Exists
\* never returns the error "S3 Currently Unreachable".
AfterLoopUnreachable ==
    \A c \in Callers :
        form[c] \in {"PutLifecycle", "Exists"} =>
            /\ pc[c] # "panic"
            /\ ret[c].err # ErrUnreachable

\* PutLifecycle came back to the loop condition after HasNext had answered
\* true, later than the end of the strategy, and went on to a third attempt.
AfterLoopUnreachableWitness ==
    \E c \in Callers :
        /\ form[c] = "PutLifecycle" /\ pc[c] = "query"
        /\ Obj(c).count >= 3
        /\ Obj(c).last >= Obj(c).end

\* C31: no attempt is ever transmitted with a payload reader that an
\* earlier attempt has already read from: the operations that take the
\* reader of their caller (Put, PutReader, PutReaderHeaderTimeout,
\* PutBucketSubresource) transmit at most once per call, and the operations
\* that retry with a payload (PutLifecycle, PutObjectTagging, RestoreObject)
\* make a new reader over the whole payload for each attempt.
PayloadNeverReused ==
    \A c \in Callers :
        LET b == wire[c].bodies
        IN  /\ form[c] \in SingleQuery => wire[c].sent <= 1
            /\ form[c] \in ReturnInLoop => \A i \in DOMAIN b : b[i] # <<>>
            /\ \A i, j \in DOMAIN b : (i < j /\ b[i] # <<>>) => b[i] # b[j]

\* RestoreObject has transmitted a second attempt, after a first one that
\* failed with a retryable error, each with a reader of its own.
PayloadNeverReusedWitness ==
    \E c \in Callers :
        /\ form[c] = "RestoreObject"
        /\ ShouldRetry(err[c])
        /\ wire[c].bodies = <<<<1>>, <<2>>>>

\* PutReader has transmitted the reader of its caller once, the attempt has
\* failed with a retryable error, and PutReader has returned that error.
SuppliedReaderSentOnce ==
    \E c \in Callers :
        /\ form[c] = "PutReader" /\ pc[c] = "done"
        /\ wire[c].bodies = <<SuppliedReader>>
        /\ ShouldRetry(ret[c].err)

ExistsAnswers ==
    \A c \in Callers :
        (form[c] = "Exists" /\ ret[c].done /\ ret[c].err # ErrUnreachable) =>
            LET e == err[c]
                absent == e.kind = "s3" /\ e.status \in {403, 404}
                success == e = NoErr \/ (e.kind = "s3" /\ e.status \div 100 = 2)
            IN  /\ absent => ret[c] = [done |-> TRUE, exists |-> FALSE, err |-> NoErr]
                /\ success => ret[c] = [done |-> TRUE, exists |-> TRUE, err |-> NoErr]
                /\ (~absent /\ ~success) =>
                       ret[c] = [done |-> TRUE, exists |-> FALSE, err |-> e]

\* C30: a retried operation makes no further attempt once an attempt
\* succeeds or fails with an error that is not retryable: ShouldRetry(nil)
\* is false under either policy; the attempt whose error is nil or not
\* retryable ends the loop, which returns the result of that attempt; and
\* an operation that has returned neither sleeps nor transmits again.
NoAttemptAfterTerminal ==
    [][\A c \in Solo :
        /\ ~ShouldRetry(NoErr)
        /\ ( /\ pc[c] = "query" /\ pc'[c] # "query"
             /\ (err'[c] = NoErr \/ ~ShouldRetry(err'[c])) ) =>
                /\ pc'[c] = "done" /\ ret'[c].done
                /\ \/ ret'[c].err = err'[c]
                   \/ /\ form[c] = "Exists" /\ err'[c].status \in {403, 404}
                      /\ ret'[c].err = NoErr /\ ~ret'[c].exists
                /\ wire'[c] = wire[c] /\ heap' = heap
        /\ pc[c] = "done" =>
                /\ pc'[c] = "done" /\ ret'[c] = ret[c]
                /\ wire'[c] = wire[c] /\ heap' = heap]_vars

\* Under the conservative policy an operation has returned the success of
\* its second attempt, having sent two requests.
NoAttemptAfterTerminalWitness ==
    \E c \in Solo :
        /\ ~RetryAlmostAllErrors
        /\ pc[c] = "done" /\ ret[c].done /\ ret[c].err = NoErr
        /\ err[c] = NoErr
        /\ Obj(c).count = 2 /\ wire[c].sent = 2

\* C12: every transmitted attempt is freshly signed: the request that goes
\* out was dated and signed at the time of this attempt, after the attempt
\* before it had finished, and carries the Date of that time.
FreshlySigned ==
    \A c \in Callers :
        wire[c].sent > 0 =>
            /\ wire[c].at = Obj(c).last
            /\ wire[c].request.dated = <<wire[c].at>>
            /\ wire[c].request.signed = <<wire[c].at>>
            /\ "Date" \in DOMAIN wire[c].request.headers
            /\ wire[c].request.headers["Date"] = FormatRFC1123(wire[c].at)

\* A third attempt is in flight, later than the first, signed with
\* Signature Version 4.
FreshlySignedWitness ==
    \E c \in Callers :
        /\ pc[c] = "query" /\ v4sign
        /\ wire[c].sent >= 3 /\ wire[c].at >= 2
        /\ wire[c].request.signed = <<wire[c].at>>

----------------------------------------------------------------------------
(* Properties of the classification, checked under ClassifySpec.           *)

\* C13 as stated: ShouldRetry returns true for every S3 error whose
\* StatusCode is >= 500, under both policies, whatever its Code and Message.
RetriedFrom500 ==
    (fault.kind = "s3" /\ fault.status >= 500) => \A a \in Answers : a

\* C13: ShouldRetry returns true for every S3 error whose StatusCode is
\* within 500..599 under both policies, and for every S3 error whose
\* StatusCode is >= 500 under the permissive policy, whatever its Code and
\* Message.
RetriedFrom500To599 ==
    fault.kind = "s3" =>
        /\ (fault.status >= 500 /\ fault.status <= 599) => \A a \in Answers : a
        /\ fault.status >= 500 => \A a \in Permissive : a

\* A 599 with a Code that is not a named one and a Message that is no
\* transport text was answered under both policies.
RetriedFrom500To599Witness ==
    /\ fault.kind = "s3" /\ fault.status = 599
    /\ fault.code = "AccessDenied" /\ fault.msg = <<"access", "denied">>
    /\ Permissive = {TRUE} /\ Conservative = {TRUE}

\* C14: a 409 S3 error is classified identically under both policies: it is
\* retried if the Server header does not start with "HCP"; from an HCP
\* server it is retried when Code is "OperationAborted" and the message
\* contains "conflicting operation" in any case, and is never retried when
\* it reports that the object already exists.
ConflictClassifiedAlike ==
    (fault.kind = "s3" /\ fault.status = 409) =>
        /\ \A p \in Permissive : \A q \in Conservative : p = q
        /\ ~HasPrefix(fault.server, ServerHCP) => \A a \in Answers : a
        /\ ( /\ HasPrefix(fault.server, ServerHCP)
             /\ fault.code = "OperationAborted"
             /\ Contains(ToLower(fault.msg), MsgConflict) )
               => \A a \in Answers : a
        /\ ( /\ HasPrefix(fault.server, ServerHCP)
             /\ fault.code \notin NamedCodes
             /\ fault.msg = MsgExists )
               => \A a \in Answers : ~a

\* C15: ShouldRetry returns true, under both policies, for every S3 error
\* whose Code is InternalError, NoSuchUpload, NoSuchBucket or RequestTimeout,
\* whatever its status.
NamedCodesRetried ==
    (fault.kind = "s3" /\ fault.code \in NamedCodes) => \A a \in Answers : a

\* A 409 of an HCP server that names no conflicting operation, and a 403,
\* 404: each with a named Code and answered under both policies.
NamedCodesRetriedWitness ==
    /\ fault.kind = "s3" /\ fault.code = "NoSuchBucket"
    /\ fault.status = 409 /\ HasPrefix(fault.server, ServerHCP)
    /\ ~Contains(ToLower(fault.msg), MsgConflict)
    /\ Permissive = {TRUE} /\ Conservative = {TRUE}

\* C16: ShouldRetry returns true, under both policies, for every error whose
\* Timeout method or Temporary method reports true, also when the error is
\* wrapped in a *url.Error.
TimeoutsRetried ==
    (fault # NoErr /\ (fault.timeout \/ fault.temporary))
        => \A a \in Answers : a

\* A wrapped error of no listed type and no listed text whose Timeout
\* reports true and whose Temporary does not.
TimeoutsRetriedWitness ==
    /\ fault.kind = "other" /\ fault.wrapped
    /\ fault.timeout /\ ~fault.temporary
    /\ fault.msg = <<"access", "denied">>
    /\ Permissive = {TRUE} /\ Conservative = {TRUE}

\* C17: the error of a request that the caller canceled is classified
\* non-retryable by ShouldRetry.
CancellationNotRetried ==
    ( /\ fault.kind = "other" /\ fault.msg = MsgCanceled
      /\ ~fault.timeout /\ ~fault.temporary )
        => \A a \in Answers : ~a

\* C18: ShouldRetry returns true under both policies for an S3 error with
\* status 429 and for one with status 400 and an empty Code; a 400 S3 error
\* whose Code is not empty and not a named one is retried under neither.
ThrottledAndBadRequest ==
    fault.kind = "s3" =>
        /\ fault.status = 429 => \A a \in Answers : a
        /\ (fault.status = 400 /\ fault.code = "") => \A a \in Answers : a
        /\ (fault.status = 400 /\ fault.code \notin NamedCodes \cup {""})
              => \A a \in Answers : ~a

\* The rules that name an error: the transport texts, Timeout and
\* Temporary, the end-of-file values, DNS errors, the listed operations of
\* a network error, and for an S3 error the named Codes and the statuses
\* 500..599, 429, 409 and 400 without a Code.
MatchedByRule(e) ==
    \/ e.wrapped /\ e.msg = MsgBrokenConnection
    \/ e.timeout \/ e.temporary
    \/ e.msg \in {MsgCanceledWaiting, MsgClosedConnection}
    \/ e.kind \in {"eof", "dns"}
    \/ e.kind = "op" /\ e.op \in RetriedOps
    \/ /\ e.kind = "s3"
       /\ \/ e.code \in NamedCodes
          \/ e.status \in 500..599 \cup {429, 409}
          \/ e.status = 400 /\ e.code = ""

\* C19: for a non-nil error that no rule names, ShouldRetry returns true
\* under the permissive policy unless the error is an S3 error with a status
\* below 500, which is not retried; under the conservative policy it returns
\* false.
DefaultClassification ==
    (fault # NoErr /\ ~MatchedByRule(fault)) =>
        /\ \A a \in Permissive : a = ~(fault.kind = "s3" /\ fault.status < 500)
        /\ \A a \in Conservative : ~a

\* A network error of an operation that is not listed, answered under both
\* policies: retried under the permissive one only.
DefaultClassificationWitness ==
    /\ fault.kind = "op" /\ fault.op = "dial"
    /\ ~fault.timeout /\ ~fault.temporary
    /\ Permissive = {TRUE} /\ Conservative = {FALSE}

\* The request carries a server-side-encryption header with a value.
CarriesSSE(h) ==
    \E k \in DOMAIN h :
        /\ CanonicalMIMEHeaderKey(k) = CanonicalMIMEHeaderKey(sseHeaderKey)
        /\ h[k] # ""
HeaderValue(h, key) ==
    IF \E k \in DOMAIN h : CanonicalMIMEHeaderKey(k) = key
    THEN h[CHOOSE k \in DOMAIN h : CanonicalMIMEHeaderKey(k) = key]
    ELSE ""

\* C20: when the request carries a server-side-encryption header and run
\* succeeds, query returns an error exactly when the value of that header
\* in the response differs from the requested value or is absent, and
\* ShouldRetry does not classify that error retryable.
EncryptionMismatchTerminal ==
    \A c \in Solo :
        ( /\ pc[c] = "returned"
          /\ exchange.runErr = NoErr
          /\ CarriesSSE(exchange.headers) ) =>
            LET asked == HeaderValue(exchange.headers,
                                     CanonicalMIMEHeaderKey(sseHeaderKey))
                got == HeaderValue(exchange.response,
                                   CanonicalMIMEHeaderKey(sseHeaderKey))
            IN  /\ (fault # NoErr) <=> (got # asked)
                /\ got # asked => \A a \in Answers : ~a

----------------------------------------------------------------------------
(* The lifecycle document: Configuration.Visit and Configuration.IsUnclean. *)

\* No retry loop, request or classification is modelled.
NoOperation ==
    /\ strategy = [Total |-> 0, Delay |-> 0, Min |-> 0]
    /\ now = 0
    /\ heap = [a \in Addr |-> ZeroAttempt]
    /\ ref = [c \in Callers |-> 0]
    /\ pc = [c \in Callers |-> "idle"]
    /\ wake = [c \in Callers |-> 0]
    /\ obs = [c \in Callers |-> NoObs]
    /\ form = [c \in Callers |-> "none"]
    /\ err = [c \in Callers |-> NoErr]
    /\ RetryAlmostAllErrors = TRUE
    /\ v4sign = TRUE
    /\ client = LoopClient
    /\ supplied = LoopDescriptor
    /\ req = [c \in Callers |-> NewRequest]
    /\ wire = [c \in Callers |-> NoWire]
    /\ ret = [c \in Callers |-> NoRet]
    /\ exchange = NoExchange
    /\ fault = NoErr
    /\ verdict = NoVerdict
operationVars ==
    <<strategy, now, heap, ref, pc, wake, obs, form, err, confVars, opVars,
      classVars>>

MaxRules == 1

\* UNKNOWN []Any `xml:",any"`: the elements the decoder did not know
Unknowns == {<<>>, <<"Any">>}
\* A pointer field is <<>> when nil and <<x>> when it points to x.
Ptr(S) == {<<>>} \cup {<<x>> : x \in S}
Tags == [kind : {"Tag"}, UNKNOWN : Unknowns]
Ands == [kind : {"And"}, Tag : Ptr(Tags), UNKNOWN : Unknowns]
\* A filter of S3 holds a prefix, a tag or an And; at most one of the
\* filter, its tag, its And and the tag of its And has unknown elements.
UnknownsUnder(f) ==
    Len(f.UNKNOWN)
    + (IF f.Tag = <<>> THEN 0 ELSE Len(f.Tag[1].UNKNOWN))
    + (IF f.And = <<>> THEN 0 ELSE Len(f.And[1].UNKNOWN))
    + (IF f.And = <<>> \/ f.And[1].Tag = <<>> THEN 0
       ELSE Len(f.And[1].Tag[1].UNKNOWN))
Filters ==
    {f \in [kind : {"Filter"}, Tag : Ptr(Tags), And : Ptr(Ands),
            UNKNOWN : Unknowns] :
        (f.Tag = <<>> \/ f.And = <<>>) /\ UnknownsUnder(f) <= 1}
Transitions == [kind : {"Transition"}, UNKNOWN : Unknowns]
Expirations == [kind : {"Expiration"}, UNKNOWN : Unknowns]
\* No, one or two transitions, of which at most one with unknown elements.
TransitionLists ==
    {<<>>} \cup {<<t>> : t \in Transitions}
           \cup {l \in [1..2 -> Transitions] : \E i \in 1..2 : l[i].UNKNOWN = <<>>}
Rules ==
    [kind : {"Rule"}, Filter : Ptr(Filters), Transitions : TransitionLists,
     Expiration : Ptr(Expirations), UNKNOWN : Unknowns]
RuleLists == UNION {[1..n -> Rules] : n \in 0..MaxRules}
Configurations == [kind : {"Configuration"}, Rules : RuleLists, UNKNOWN : Unknowns]

\* The calls a Visit makes on its Visitor, in order, each with its node.
RECURSIVE Concat(_)
Concat(calls) == IF calls = <<>> THEN <<>> ELSE Head(calls) \o Concat(Tail(calls))
\* func (t *Tag) Visit(v Visitor)
VisitTag(t) == <<t>>
\* func (a *And) Visit(v Visitor)
VisitAnd(a) == <<a>> \o Concat([i \in DOMAIN a.Tag |-> VisitTag(a.Tag[i])])
\* func (f *Filter) Visit(v Visitor)
VisitFilterNoAnd(f) == <<f>> \o Concat([i \in DOMAIN f.Tag |-> VisitTag(f.Tag[i])])
VisitFilter(f) ==
    <<f>> \o Concat([i \in DOMAIN f.Tag |-> VisitTag(f.Tag[i])])
          \o Concat([i \in DOMAIN f.And |-> VisitAnd(f.And[i])])
\* func (t *Transition) Visit(v Visitor)
VisitTransition(t) == <<t>>
\* func (e *Expiration) Visit(v Visitor)
VisitExpiration(e) == <<e>>
\* func (r *Rule) Visit(v Visitor)
VisitRule(r) ==
    <<r>> \o Concat([i \in DOMAIN r.Filter |-> VisitFilter(r.Filter[i])])
          \o Concat([i \in DOMAIN r.Transitions |-> VisitTransition(r.Transitions[i])])
          \o Concat([i \in DOMAIN r.Expiration |-> VisitExpiration(r.Expiration[i])])
\* func (c *Configuration) Visit(v Visitor)
Visit(c) == <<c>> \o Concat([i \in DOMAIN c.Rules |-> VisitRule(c.Rules[i])])

\* The uncleanVisitor: v.unc = v.unc || len(x.UNKNOWN) > 0, call after call
RECURSIVE uncleanVisitor(_, _)
uncleanVisitor(unc, calls) ==
    IF calls = <<>> THEN unc
    ELSE uncleanVisitor(unc \/ Len(Head(calls).UNKNOWN) > 0, Tail(calls))
\* func (c *Configuration) IsUnclean() bool
IsUnclean(c) == uncleanVisitor(FALSE, Visit(c))

VisitInit ==
    /\ NoOperation
    /\ hreq = <<>> /\ canon = <<>>
    /\ amzRestore = <<>> /\ status = <<>>
    /\ doc \in Configurations
    /\ unclean = <<>>
    /\ NoLibCalls

\* unc := x.IsUnclean()
CallIsUnclean ==
    /\ unclean = <<>>
    /\ unclean' = <<IsUnclean(doc)>>
    /\ UNCHANGED <<operationVars, hreq, canon, amzRestore, status, doc, libVars>>

VisitStep == CallIsUnclean

VisitSpec == VisitInit /\ [][VisitStep]_vars

\* The nodes of a document: the configuration, its rules, their filters,
\* the tag or And of a filter, the tag of an And, the transitions and the
\* expiration of a rule.
OptNodes(p) == {p[i] : i \in DOMAIN p}
NodesOfFilter(f) ==
    {f} \cup OptNodes(f.Tag) \cup OptNodes(f.And)
        \cup UNION {OptNodes(a.Tag) : a \in OptNodes(f.And)}
NodesOfRule(r) ==
    {r} \cup UNION {NodesOfFilter(f) : f \in OptNodes(r.Filter)}
        \cup OptNodes(r.Transitions) \cup OptNodes(r.Expiration)
NodesOf(c) == {c} \cup UNION {NodesOfRule(c.Rules[i]) : i \in DOMAIN c.Rules}

\* C28: IsUnclean returns true if and only if some node of the document
\* (the configuration, a rule, its filter, the filter's tag or And, the
\* And's tag, a transition, the expiration) has a non-empty UNKNOWN list.
UncleanIffUnknown ==
    unclean # <<>> =>
        (unclean[1] <=> \E n \in NodesOf(doc) : n.UNKNOWN # <<>>)

\* IsUnclean has answered true for a document whose only unknown element
\* is under the tag of the And of a filter.
UncleanIffUnknownWitness ==
    /\ unclean = <<TRUE>>
    /\ \E r \in OptNodes(doc.Rules) : \E f \in OptNodes(r.Filter) :
         \E a \in OptNodes(f.And) : \E t \in OptNodes(a.Tag) :
            /\ t.UNKNOWN # <<>>
            /\ \A n \in NodesOf(doc) \ {t} : n.UNKNOWN = <<>>

\* IsUnclean has answered false for a document with a rule that has a
\* filter, two transitions and an expiration, as the example of TestUnmarshal.
CleanDocumentWitness ==
    /\ unclean = <<FALSE>>
    /\ \E r \in OptNodes(doc.Rules) :
         r.Filter # <<>> /\ Len(r.Transitions) = 2 /\ r.Expiration # <<>>

----------------------------------------------------------------------------
(* The V4 signer: the canonical request of an http.Request.                *)
(* A text is a sequence of pieces; names and values are single pieces.     *)

\* The names and keys of the model in the order of sort.Strings.
ByteOrder ==
    <<"Date", "Host", "X-Amz-Meta", "bar", "date", "foo", "host", "x-amz-meta">>
Rank(x) == CHOOSE i \in DOMAIN ByteOrder : ByteOrder[i] = x
\* strings.ToLower on a header name
ToLowerName(n) ==
    CASE n = "Date" -> "date"
      [] n = "Host" -> "host"
      [] n = "X-Amz-Meta" -> "x-amz-meta"
      [] OTHER -> n
\* strings.TrimSpace on a header value
Trim(v) == CASE v = " v1" -> "v1" [] v = "v2 " -> "v2" [] OTHER -> v
\* The encoding of a query value: a space becomes %20.
Encode(v) == CASE v = "a b" -> "a%20b" [] OTHER -> v

\* sort.Strings: insertion of each name into the sorted names before it
RECURSIVE Insert(_, _)
Insert(x, sorted) ==
    IF sorted = <<>> THEN <<x>>
    ELSE IF Rank(x) <= Rank(Head(sorted)) THEN <<x>> \o sorted
    ELSE <<Head(sorted)>> \o Insert(x, Tail(sorted))
RECURSIVE SortStrings(_)
SortStrings(names) ==
    IF names = <<>> THEN <<>>
    ELSE Insert(Head(names), SortStrings(Tail(names)))

\* strings.Join(parts, sep), the parts being texts
RECURSIVE Join(_, _)
Join(parts, sep) ==
    IF parts = <<>> THEN <<>>
    ELSE IF Len(parts) = 1 THEN Head(parts)
    ELSE Head(parts) \o <<sep>> \o Join(Tail(parts), sep)

\* The distinct keys of a query in the order of their first appearance.
RECURSIVE Keys(_)
Keys(q) ==
    IF q = <<>> THEN <<>>
    ELSE LET rest == Keys(SubSeq(q, 1, Len(q) - 1))
             k == q[Len(q)][1]
         IN  IF \E i \in DOMAIN rest : rest[i] = k THEN rest
             ELSE Append(rest, k)
\* The values of key k in the order they were supplied in.
RECURSIVE ValuesOf(_, _)
ValuesOf(q, k) ==
    IF q = <<>> THEN <<>>
    ELSE (IF Head(q)[1] = k THEN <<Head(q)[2]>> ELSE <<>>) \o ValuesOf(Tail(q), k)

\* sorted-query-string: keys sorted, the values of a key in their order
canonicalQueryStringAsSupplied(q) ==
    Join([i \in DOMAIN q |-> <<q[i][1], "=", Encode(q[i][2])>>], "&")
canonicalQueryString(q) ==
    LET keys == SortStrings(Keys(q))
        pairsOf(k) == LET vs == ValuesOf(q, k)
                      IN  [i \in DOMAIN vs |-> <<k, "=", Encode(vs[i])>>]
    IN  Join(Concat([i \in DOMAIN keys |-> pairsOf(keys[i])]), "&")
\* The lower-cased names of a header set, sorted.
signedNamesAsIterated(h) == [i \in DOMAIN h |-> ToLowerName(h[i][1])]
signedNames(h) == SortStrings([i \in DOMAIN h |-> ToLowerName(h[i][1])])
\* The value of the header with the lower-cased name n: its values,
\* trimmed and joined by commas.
valueOf(h, n) ==
    LET i == CHOOSE j \in DOMAIN h : ToLowerName(h[j][1]) = n
        vs == h[i][2]
    IN  Join([j \in DOMAIN vs |-> <<Trim(vs[j])>>], ",")
\* signed-header-block: "lowercased-name:trimmed-value" and a newline each
canonicalHeaders(h) ==
    LET names == signedNames(h)
    IN  Concat([i \in DOMAIN names |->
                  <<names[i], ":">> \o valueOf(h, names[i]) \o <<"\n">>])
\* semicolon-joined-sorted-signed-header-names
signedHeaders(h) ==
    LET names == signedNames(h)
    IN  Join([i \in DOMAIN names |-> <<names[i]>>], ";")
\* hex(sha256("")), the hash of the empty payload
EmptyStringSHA256 ==
    "e3b0c44298fc1c149afbf4c8996fb92427ae41e4649b934ca495991b7852b855"
\* func (s *V4Signer) canonicalRequest(req *http.Request, payloadHash string)
\* for a request without body
canonicalRequest(r, payloadHash) ==
    <<r.Method, "\n", IF r.Path = "" THEN "/" ELSE r.Path, "\n">>
    \o canonicalQueryString(r.Query) \o <<"\n">>
    \o canonicalHeaders(r.Header) \o <<"\n">>
    \o signedHeaders(r.Header) \o <<"\n">>
    \o <<IF payloadHash = "" THEN EmptyStringSHA256 ELSE payloadHash>>

\* The request of the tests of the signer: GET
\* http://host.foo.com/?foo=Zoo&foo=aha with the headers Date and host.
TestDate == "Mon, 09 Sep 2011 23:36:00 GMT"
TestRequest ==
    [Method |-> "GET", Path |-> "/",
     Query |-> << <<"foo", "Zoo">>, <<"foo", "aha">> >>,
     Header |-> << <<"Date", <<TestDate>> >>, <<"Host", <<"host.foo.com">> >> >>,
     payloadHash |-> ""]
\* expected of TestV4SignerBuildCanonicalRequest
TestExpected ==
    <<"GET", "\n", "/", "\n", "foo", "=", "Zoo", "&", "foo", "=", "aha", "\n",
      "date", ":", TestDate, "\n", "host", ":", "host.foo.com", "\n", "\n",
      "date", ";", "host", "\n", EmptyStringSHA256>>

\* The subsequences of s, and the orders of the elements of a sequence.
RECURSIVE SubSeqs(_)
SubSeqs(s) ==
    IF s = <<>> THEN {<<>>}
    ELSE LET rest == SubSeqs(Tail(s))
         IN  rest \cup {<<Head(s)>> \o r : r \in rest}
Orders(s) ==
    {p \in [DOMAIN s -> {s[i] : i \in DOMAIN s}] :
        \A i, j \in DOMAIN s : i # j => p[i] # p[j]}
\* The orders of a query that keep the values of each key in their order.
Requeries(q) == {p \in Orders(q) : \A i \in DOMAIN q : ValuesOf(p, q[i][1]) = ValuesOf(q, q[i][1])}

QueryPairs == << <<"foo", "Zoo">>, <<"bar", "a b">>, <<"foo", "aha">> >>
HeaderFields ==
    << <<"X-Amz-Meta", <<" v1", "v2 ">> >>, <<"Host", <<"host.foo.com">> >>,
       <<"Date", <<TestDate>> >> >>
\* Host and Date are in every request that is signed.
HeaderSets ==
    UNION {Orders(h) : h \in {s \in SubSeqs(HeaderFields) : Len(s) >= 2 /\
              \A n \in {"Host", "Date"} : \E i \in DOMAIN s : s[i][1] = n}}
Requests ==
    [Method : {"GET", "PUT"}, Path : {"", "/", "/k"},
     Query : UNION {Orders(q) : q \in SubSeqs(QueryPairs)},
     Header : HeaderSets, payloadHash : {"", "UNSIGNED-PAYLOAD"}]

SignInit ==
    /\ NoOperation
    /\ hreq \in Requests
    /\ canon = <<>>
    /\ amzRestore = <<>> /\ status = <<>>
    /\ doc = <<>> /\ unclean = <<>>
    /\ NoLibCalls

\* s.canonicalRequest(req, payloadHash)
CallCanonicalRequest ==
    /\ canon' = <<canonicalRequest(hreq, hreq.payloadHash)>>
    /\ UNCHANGED <<operationVars, hreq, amzRestore, status, doc, unclean, libVars>>

\* The next range over the header map goes in another order.
RangeHeader ==
    /\ \E h \in Orders(hreq.Header) :
         h # hreq.Header /\ hreq' = [hreq EXCEPT !.Header = h]
    /\ UNCHANGED <<operationVars, canon, amzRestore, status, doc, unclean, libVars>>

\* The caller writes the query of the same request with its keys in
\* another order.
Requery ==
    /\ \E q \in Requeries(hreq.Query) :
         q # hreq.Query /\ hreq' = [hreq EXCEPT !.Query = q]
    /\ UNCHANGED <<operationVars, canon, amzRestore, status, doc, unclean, libVars>>

SignStep == CallCanonicalRequest \/ RangeHeader \/ Requery

SignSpec == SignInit /\ [][SignStep]_vars

\* C23: canonicalization is deterministic and independent of order: for
\* the same method, path, query parameters, headers and payload hash every
\* call returns the same canonical request, in whatever order the headers
\* are iterated and the distinct query keys are supplied.
CanonicalOrderIndependent ==
    [][(canon # <<>> /\ canon' # <<>>) => canon' = canon]_vars

\* The canonical request is that of the test, and the request has its
\* Host header iterated before its Date header.
CanonicalOrderIndependentWitness ==
    /\ canon = <<TestExpected>>
    /\ hreq.Header[1][1] = "Host" /\ hreq.Header[2][1] = "Date"

\* The lines of a text: the pieces between its newlines.
RECURSIVE Lines(_)
Lines(s) ==
    IF \A i \in DOMAIN s : s[i] # "\n" THEN <<s>>
    ELSE LET n == CHOOSE i \in DOMAIN s :
                     s[i] = "\n" /\ \A j \in 1..(i - 1) : s[j] # "\n"
         IN  <<SubSeq(s, 1, n - 1)>> \o Lines(SubSeq(s, n + 1, Len(s)))
\* The query line holds key = value groups separated by &: its i-th pair.
PairAt(line, i) == <<line[4 * i - 3], line[4 * i - 1]>>
WellFormedQuery(line, n) ==
    /\ Len(line) = (IF n = 0 THEN 0 ELSE 4 * n - 1)
    /\ \A i \in 1..n : line[4 * i - 2] = "="
    /\ \A i \in 1..(n - 1) : line[4 * i] = "&"
EncodedQuery(q) == [i \in DOMAIN q |-> <<q[i][1], Encode(q[i][2])>>]

\* C24: the canonical request consists of the lines: method; path, "/"
\* when absent; the query sorted by key, the values of a duplicated key
\* in their original order; a line "lowercased-name:value" for each
\* signed header, sorted by name; an empty line; the signed header names
\* sorted and joined by semicolons; the payload hash.  For GET
\* /?foo=Zoo&foo=aha with the headers Date and host it is the text the
\* test expects, with the query foo=Zoo&foo=aha and the names date;host.
CanonicalRequestStructure ==
    canon # <<>> =>
        LET lines == Lines(canon[1])
            n == Len(hreq.Header)
            m == Len(hreq.Query)
            pairs == [i \in 1..m |-> PairAt(lines[3], i)]
            nameAt(i) == lines[3 + i][1]
        IN  /\ Len(lines) = n + 6
            /\ lines[1] = <<hreq.Method>>
            /\ lines[2] = <<IF hreq.Path = "" THEN "/" ELSE hreq.Path>>
            /\ WellFormedQuery(lines[3], m)
            /\ \A i \in 1..(m - 1) : Rank(pairs[i][1]) <= Rank(pairs[i + 1][1])
            /\ \A i \in 1..m :
                 ValuesOf(pairs, pairs[i][1])
                    = ValuesOf(EncodedQuery(hreq.Query), pairs[i][1])
            /\ \A i \in 1..n :
                 /\ Len(lines[3 + i]) >= 3 /\ lines[3 + i][2] = ":"
                 /\ ToLowerName(nameAt(i)) = nameAt(i)
                 /\ \E j \in 1..n : ToLowerName(hreq.Header[j][1]) = nameAt(i)
            /\ \A i \in 1..(n - 1) : Rank(nameAt(i)) < Rank(nameAt(i + 1))
            /\ lines[n + 4] = <<>>
            /\ lines[n + 5] = Join([i \in 1..n |-> <<nameAt(i)>>], ";")
            /\ lines[n + 6] = <<IF hreq.payloadHash = "" THEN EmptyStringSHA256
                                ELSE hreq.payloadHash>>
            /\ ( /\ hreq.Method = "GET" /\ hreq.Path = "/"
                 /\ hreq.Query = TestRequest.Query
                 /\ hreq.Header \in Orders(TestRequest.Header)
                 /\ hreq.payloadHash = "" ) =>
                    /\ canon[1] = TestExpected
                    /\ lines[3] = <<"foo", "=", "Zoo", "&", "foo", "=", "aha">>
                    /\ lines[n + 5] = <<"date", ";", "host">>

\* The canonical request of a request without path, with the keys foo,
\* bar, foo in its pairs and three headers, X-Amz-Meta iterated first.
CanonicalRequestStructureWitness ==
    /\ canon # <<>>
    /\ hreq.Path = ""
    /\ hreq.Query = QueryPairs
    /\ Len(hreq.Header) = 3 /\ hreq.Header[1][1] = "X-Amz-Meta"
    /\ Lines(canon[1])[3]
         = <<"bar", "=", "a%20b", "&", "foo", "=", "Zoo", "&", "foo", "=", "aha">>

----------------------------------------------------------------------------
(* The x-amz-restore header: RestoreStatus.ParseAmzRestore.                *)

\* An RFC1123 date is the text <<weekday, day, month, year, hour, minute,
\* second, zone>>; an instant is a record of numbers, in UTC.
Months ==
    <<"Jan", "Feb", "Mar", "Apr", "May", "Jun",
      "Jul", "Aug", "Sep", "Oct", "Nov", "Dec">>
\* time.Time{}: January 1, year 1, 00:00:00 UTC
ZeroTime == [year |-> 1, month |-> 1, day |-> 1, hour |-> 0, min |-> 0, sec |-> 0]
\* time.Parse(time.RFC1123, text)
ParseRFC1123(text) ==
    [year |-> text[4],
     month |-> CHOOSE m \in DOMAIN Months : Months[m] = text[3],
     day |-> text[2], hour |-> text[5], min |-> text[6], sec |-> text[7]]

\* A header is the sequence of its fields key="value", as they stand
\* between the commas: <<key, value>>, the value without its quotes.
FieldOf(h, key) ==
    IF \E i \in DOMAIN h : h[i][1] = key
    THEN <<h[CHOOSE i \in DOMAIN h : h[i][1] = key][2]>>
    ELSE <<>>
\* r := RestoreStatus{}
NoStatus == [OnGoingRequest |-> FALSE, ExpiryDate |-> ZeroTime, parsed |-> FALSE]
\* func (r *RestoreStatus) ParseAmzRestore(header string) error, with a
\* nil error: the receiver after the call
ParseAmzRestoreNoExpiry(r, h) ==
    [r EXCEPT !.OnGoingRequest = FieldOf(h, "ongoing-request") = <<"true">>,
              !.parsed = TRUE]
ParseAmzRestore(r, h) ==
    LET ongoing == FieldOf(h, "ongoing-request")
        expiry == FieldOf(h, "expiry-date")
    IN  [r EXCEPT !.OnGoingRequest = (ongoing = <<"true">>),
                  !.ExpiryDate = IF expiry = <<>> THEN @
                                 ELSE ParseRFC1123(expiry[1]),
                  !.parsed = TRUE]

\* sample and expiry of the first entry of the table of
\* TestParseRestoreHeader, and sample of the second
TestExpiryText == <<"Fri", 23, "Dec", 2012, 0, 0, 0, "GMT">>
TestExpiry ==
    [year |-> 2012, month |-> 12, day |-> 23, hour |-> 0, min |-> 0, sec |-> 0]
SampleRestored ==
    << <<"ongoing-request", "false">>, <<"expiry-date", TestExpiryText>> >>
SampleOngoing == << <<"ongoing-request", "true">> >>

\* The restore headers of S3: a restoration that is going on, and one that
\* is done, with the date its copy expires at.
ExpiryTexts ==
    {<<"Fri", d, Months[m], y, h, 0, 0, "GMT">> :
        d \in {1, 23}, m \in DOMAIN Months, y \in {2012, 2013}, h \in {0, 23}}
RestoreHeaders ==
    {SampleOngoing}
    \cup {<< <<"ongoing-request", "false">>, <<"expiry-date", t>> >> : t \in ExpiryTexts}

RestoreInit ==
    /\ NoOperation
    /\ hreq = <<>> /\ canon = <<>>
    /\ amzRestore \in RestoreHeaders
    /\ status = NoStatus
    /\ doc = <<>> /\ unclean = <<>>
    /\ NoLibCalls

\* err := r.ParseAmzRestore(x.sample)
CallParseAmzRestore ==
    /\ ~status.parsed
    /\ status' = ParseAmzRestore(status, amzRestore)
    /\ UNCHANGED <<operationVars, hreq, canon, amzRestore, doc, unclean, libVars>>

RestoreStep == CallParseAmzRestore

RestoreSpec == RestoreInit /\ [][RestoreStep]_vars

----------------------------------------------------------------------------
(* Properties of prepare and run, checked under RequestSpec.               *)

\* C21: a second call of prepare on a request that is already prepared
\* leaves method, path, base URL and parameters as the first call left
\* them, and signs over the same resource path as the first call.
PrepareIdempotent ==
    [][\A c \in Solo :
        ( /\ req[c].prepared /\ err[c] = NoErr
          /\ pc[c] \in {"prepared", "ran"} /\ pc'[c] = "prepared" ) =>
            /\ req'[c].method = req[c].method
            /\ req'[c].path = req[c].path
            /\ req'[c].baseurl = req[c].baseurl
            /\ req'[c].params = req[c].params
            /\ req'[c].signpath = req[c].signpath]_vars

\* C22: across the attempts of an operation the caller's header map and
\* parameter map are never modified, and every attempt starts from the
\* method, bucket, path, parameters and headers the caller supplied.
CallerMapsUntouched ==
    [][/\ supplied' = supplied
       /\ \A c \in Solo : pc'[c] = "made" => req'[c] = request(supplied)]_vars

\* The second attempt was sent without the Content-Length header the
\* caller supplied, with Host, Date and the token; the caller's map still
\* holds Content-Length and nothing else.
CallerMapsUntouchedWitness ==
    \E c \in Solo :
        /\ pc[c] = "ran" /\ wire[c].sent >= 2
        /\ DOMAIN supplied.headers = {"Content-Length"}
        /\ DOMAIN req[c].headers = {"Host", "Date", "X-Amz-Security-Token"}
        /\ ~req[c].shared

\* The bound on the clock never stops a caller that waits for the clock.
ClockCapNeverBinds == \A c \in Callers : Waiting(c) => now < ClockCap

----------------------------------------------------------------------------
(* Properties of one Attempt, checked under Spec.                          *)

\* C1: whenever HasNext returned true, the very next Next call on the same
\* Attempt returns true, however much time passed between the two calls.
HasNextThenNext ==
    \A c \in Callers :
        (obs[c].op = "Next" /\ obs[c].licensed) => obs[c].res

\* A Next that HasNext licensed, made after the deadline and beyond Min.
HasNextThenNextWitness ==
    \E c \in Callers :
        /\ Started(c) /\ pc[c] = "idle"
        /\ obs[c].op = "Next" /\ obs[c].licensed /\ obs[c].res
        /\ Obj(c).last > Obj(c).end
        /\ Obj(c).count > Obj(c).strategy.Min

\* C2: once Next has returned false, every later Next returns false.
OnceFalseAlwaysFalse ==
    \A c \in Callers :
        (obs[c].exhausted /\ obs[c].op = "Next") => ~obs[c].res

\* Next declined at least twice, with time passing unused in between.
OnceFalseAlwaysFalseWitness ==
    \E c \in Callers :
        /\ Started(c)
        /\ obs[c].exhausted /\ obs[c].op = "Next" /\ ~obs[c].res
        /\ obs[c].calls >= Obj(c).count + 2
        /\ obs[c].slack
        /\ now > Obj(c).end

\* C3: the first Next after Start returns true and does not sleep, for
\* every Total, Delay and Min and at any time after Start.
FirstNextTrue ==
    \A c \in Callers :
        (Started(c) /\ obs[c].calls = 1 /\ obs[c].op = "Next") =>
            /\ obs[c].res
            /\ ~obs[c].slept
            /\ pc[c] = "idle"
            /\ Obj(c).count = 1

\* A first Next made after the deadline, with a delay configured and no
\* minimum: only the force flag grants it.
FirstNextTrueWitness ==
    \E c \in Callers :
        /\ Started(c)
        /\ obs[c].calls = 1 /\ obs[c].op = "Next" /\ obs[c].res
        /\ Obj(c).last > Obj(c).end
        /\ Obj(c).strategy.Delay > 0
        /\ Obj(c).strategy.Min <= 0

\* C4: Min overrides Total.  On an Attempt with Min = m >= 1 whose deadline
\* had passed at the first Next, exactly the first m Next calls return true,
\* HasNext is true while fewer than m attempts were made and false after.
MinOverridesTotal ==
    \A c \in Callers :
        (Started(c) /\ obs[c].late /\ Obj(c).strategy.Min >= 1) =>
            /\ obs[c].op = "Next" => (obs[c].res <=> obs[c].calls <= Obj(c).strategy.Min)
            /\ (obs[c].op = "HasNext" /\ pc[c] = "idle") =>
                   (obs[c].res <=> Obj(c).count < Obj(c).strategy.Min)
            /\ Obj(c).count <= Obj(c).strategy.Min

\* Min = 2, started late: the third Next has declined.
MinOverridesTotalWitness ==
    \E c \in Callers :
        /\ Started(c) /\ obs[c].late
        /\ Obj(c).strategy.Min = 2
        /\ obs[c].calls = 3 /\ obs[c].op = "Next" /\ ~obs[c].res
        /\ Obj(c).count = 2

\* C5: with Total 250ms, Delay 100ms, Min 0 and no time spent between the
\* calls, Next returns true exactly three times, at 0, 100ms and 200ms after
\* Start, and the fourth Next returns false at 200ms.
TimingCase(c) ==
    /\ Started(c)
    /\ Obj(c).strategy = [Total |-> TimingTotal, Delay |-> TimingDelay, Min |-> 0]
    /\ ~obs[c].slack

AttemptTiming ==
    \A c \in Callers :
        (TimingCase(c) /\ pc[c] = "idle") =>
            LET a == Obj(c)
                t0 == a.end - TimingTotal
            IN  /\ a.count <= 3
                /\ a.count >= 1 => a.last = t0 + TimingDelay * (a.count - 1)
                /\ (obs[c].op = "Next" /\ obs[c].res) => now = a.last
                /\ (obs[c].op = "Next" /\ ~obs[c].res) =>
                       (a.count = 3 /\ now = t0 + 2 * TimingDelay)

AttemptTimingWitness ==
    \E c \in Callers :
        /\ TimingCase(c)
        /\ obs[c].calls = 4 /\ obs[c].op = "Next" /\ ~obs[c].res
        /\ Obj(c).count = 3

\* C6: two consecutive attempts start at least Delay apart: when Next
\* returns true for an attempt other than the first, the clock is at least
\* the previous attempt's time plus Delay.
DelaySpacing ==
    \A c \in Callers :
        (Started(c) /\ pc[c] = "idle" /\ obs[c].op = "Next" /\ obs[c].res
            /\ Obj(c).count >= 2) =>
            /\ Obj(c).last >= obs[c].prevLast + Obj(c).strategy.Delay
            /\ now >= obs[c].prevLast + Obj(c).strategy.Delay

\* A second or later attempt that had to sleep.
DelaySpacingWitness ==
    \E c \in Callers :
        /\ Started(c) /\ pc[c] = "idle"
        /\ obs[c].op = "Next" /\ obs[c].res /\ obs[c].slept
        /\ Obj(c).count >= 2
        /\ Obj(c).strategy.Delay = MaxDelay
        /\ Obj(c).last = obs[c].prevLast + MaxDelay

\* C7: maximum duration.  A Next call made with force clear, count >= Min
\* and max(now, last+Delay) >= end returns false, does not sleep and leaves
\* the Attempt and the clock as they were; so a Next call that returns true
\* with force clear and count >= Min has its start scheduled before end.
NextCallBy(c) == obs'[c].calls = obs[c].calls + 1

MaxDuration ==
    [][\A c \in Callers :
          (Started(c) /\ NextCallBy(c)) =>
              LET a == Obj(c)
                  scheduled == Max(now, a.last + a.strategy.Delay)
                  unforced == ~a.force /\ a.count >= a.strategy.Min
              IN  /\ (unforced /\ scheduled >= a.end) =>
                        /\ ~obs'[c].res
                        /\ heap' = heap
                        /\ now' = now
                        /\ pc'[c] = "idle"
                  /\ (unforced /\ obs'[c].res) => scheduled < a.end]_vars

\* Total = 0, Delay = 0, Min = 0: the second Next, not licensed by HasNext,
\* has returned false.
MaxDurationWitness ==
    \E c \in Callers :
        /\ Started(c)
        /\ Obj(c).strategy = [Total |-> 0, Delay |-> 0, Min |-> 0]
        /\ obs[c].calls = 2 /\ obs[c].op = "Next" /\ ~obs[c].licensed
        /\ ~obs[c].res
        /\ Obj(c).count = 1

\* C8, as claimed: a call to HasNext changes no field of the Attempt.
HasNextChangesNothing ==
    [][\A c \in Callers :
          (Started(c) /\ obs'[c].op = "HasNext") =>
              heap'[ref[c]] = heap[ref[c]]]_vars

\* C8, amended: HasNext changes no field of the Attempt but force; it sets
\* force only when it returns true for an Attempt whose force was clear and
\* whose count had reached Min, and it never clears force.
HasNextChangesOnlyForce ==
    [][\A c \in Callers :
          (Started(c) /\ obs'[c].op = "HasNext") =>
              LET a == heap[ref[c]]
                  b == heap'[ref[c]]
              IN  /\ b.count = a.count
                  /\ b.last = a.last
                  /\ b.end = a.end
                  /\ b.strategy = a.strategy
                  /\ a.force => b.force
                  /\ (b.force /\ ~a.force) =>
                        /\ obs'[c].res
                        /\ a.count >= a.strategy.Min
                        /\ Max(now, a.last + a.strategy.Delay) < a.end
                  /\ ~obs'[c].res => b = a]_vars

\* HasNext has returned true after at least one attempt beyond Min, and the
\* force flag is set: HasNext set it.
HasNextChangesOnlyForceWitness ==
    \E c \in Callers :
        /\ Started(c)
        /\ obs[c].op = "HasNext" /\ obs[c].res
        /\ Obj(c).force
        /\ Obj(c).count >= 1
        /\ Obj(c).count >= Obj(c).strategy.Min

----------------------------------------------------------------------------
(* Properties of two Attempts of one strategy, checked under PairSpec.     *)

\* Caller c makes a call (Start, Next, HasNext) or returns from a sleep.
ActsOn(c) ==
    \/ obs'[c].calls # obs[c].calls
    \/ obs'[c].op # obs[c].op
    \/ obs'[c].res # obs[c].res
    \/ pc'[c] # pc[c]

\* C9: Attempts started from the same strategy are independent.  They are
\* distinct objects; a step of one caller leaves the other caller's Attempt
\* (count, last, end, force), position and observed results as they were;
\* no step changes the strategy, and every Attempt keeps the strategy's
\* Total, Delay and Min.
AttemptsIndependent ==
    [][/\ strategy' = strategy
       /\ \A c \in Callers : Started(c) => Obj(c).strategy = strategy
       /\ \A c, d \in Callers :
             (c # d /\ Started(c) /\ Started(d)) => ref[c] # ref[d]
       /\ \A c, d \in Callers :
             (c # d /\ ActsOn(c) /\ Started(d)) =>
                 /\ heap'[ref[d]] = heap[ref[d]]
                 /\ ref'[d] = ref[d]
                 /\ obs'[d] = obs[d]
                 /\ pc'[d] = pc[d]
                 /\ wake'[d] = wake[d]]_vars

\* Two Attempts started at different times, one exhausted and the other
\* licensed by HasNext for a further attempt.
AttemptsIndependentWitness ==
    /\ \A c \in Callers : Started(c) /\ obs[c].calls >= 1
    /\ Obj(1).end # Obj(2).end
    /\ obs[1].exhausted /\ ~obs[2].exhausted
    /\ ~Obj(1).force /\ Obj(2).force
    /\ Obj(1).count # Obj(2).count

----------------------------------------------------------------------------
(* Properties of the retry loops, checked under LoopSpec.                  *)

\* C10: every retry loop terminates: a loop that has started returns after
\* finitely many attempts, also when every attempt fails with a retryable
\* error.
LoopTerminates ==
    \A c \in Callers : (pc[c] = "next") ~> (pc[c] = "done")

\* A loop has returned after three or more attempts, each of which failed
\* with a retryable error.
LoopTerminatesWitness ==
    \E c \in Callers :
        /\ pc[c] = "done"
        /\ ShouldRetry(err[c])
        /\ Obj(c).count >= 3

----------------------------------------------------------------------------
(* NewSpec: the application calls one of the constructors of S3.  A call   *)
(* is a stack of frames; a frame is the function and the statement it is   *)
(* at ("body": its first statement, "set": the statement after the call    *)
(* of the inner constructor has returned).                                 *)

\* Frames that a goroutine's stack holds before the runtime ends the
\* program with "goroutine stack exceeds ... limit".
MaxFrames == 4

Constructors == {"New", "NewV4", "NewWithCustomRootCAs", "NewWithCustomRootCAsV4"}
\* The constructor that the first statement of a V4 constructor calls.
InnerOf(f) ==
    IF f = "NewV4" THEN "New" ELSE "NewWithCustomRootCAsV4"

\* var DefaultAttemptStrategy, in units of 50ms
DefaultAttemptStrategy == [Min |-> 5, Total |-> 100, Delay |-> 4]

\* What the application passes: auth, region, rootCAs (nil or a pool) and
\* at most one *http.Client.
Arguments ==
    [auth : {"", "token"}, region : {<<>>, BucketEndpoint},
     rootCAs : {<<>>, <<"pool">>}, client : {<<>>, <<"custom">>}]

\* s3 := &S3{...}; s3.signer.IncludeXAmzContentSha256 = true, of New and of
\* NewWithCustomRootCAs
S3Of(f, a) ==
    [Auth |-> a.auth, Region |-> a.region,
     AttemptStrategy |-> DefaultAttemptStrategy,
     client |-> a.client,
     rootCAs |-> IF f = "NewWithCustomRootCAs" THEN a.rootCAs ELSE <<>>,
     IncludeXAmzContentSha256 |-> TRUE,
     v4sign |-> FALSE]

NewInit ==
    /\ NoOperation
    /\ hreq = <<>> /\ canon = <<>>
    /\ amzRestore = <<>> /\ status = <<>>
    /\ doc = <<>> /\ unclean = <<>>
    /\ problems = <<>> /\ hresp = <<>> /\ built = <<>> /\ conn = <<>>
    /\ \E f \in Constructors, a \in Arguments :
         made = [fn |-> f, args |-> a, stack |-> <<>>, called |-> FALSE,
                 value |-> <<>>, result |-> <<>>, fatal |-> FALSE]

\* The frame on top of the stack.
Top == made.stack[Len(made.stack)]
Pop == SubSeq(made.stack, 1, Len(made.stack) - 1)
\* return v: the value goes to the caller's frame, or to the application.
ReturnValue(v) ==
    IF Len(made.stack) = 1
    THEN [made EXCEPT !.stack = <<>>, !.result = <<v>>, !.value = <<>>]
    ELSE [made EXCEPT !.stack = Pop, !.value = <<v>>]

\* s3 := NewWithCustomRootCAsV4(auth, region, rootCAs) and the like
CallConstructor ==
    /\ ~made.called
    /\ made' = [made EXCEPT !.called = TRUE,
                            !.stack = <<[fn |-> made.fn, at |-> "body"]>>]
    /\ UNCHANGED <<operationVars, hreq, canon, amzRestore, status, doc,
                   unclean, problems, hresp, built, conn>>

\* The body of New and of NewWithCustomRootCAs: return s3
Build ==
    /\ made.stack # <<>> /\ ~made.fatal
    /\ Top.fn \in {"New", "NewWithCustomRootCAs"}
    /\ made' = ReturnValue(S3Of(Top.fn, made.args))
    /\ UNCHANGED <<operationVars, hreq, canon, amzRestore, status, doc,
                   unclean, problems, hresp, built, conn>>

\* The first statement of NewV4, s3 := New(auth, region), and of
\* NewWithCustomRootCAsV4,
\* s3 := NewWithCustomRootCAsV4(auth, region, rootCAs, client...)
CallInner ==
    /\ made.stack # <<>> /\ ~made.fatal
    /\ Top.fn \in {"NewV4", "NewWithCustomRootCAsV4"}
    /\ Top.at = "body"
    /\ Len(made.stack) < MaxFrames
    /\ made' = [made EXCEPT
                  !.stack = Append(Pop, [Top EXCEPT !.at = "set"])
                            \o <<[fn |-> InnerOf(Top.fn), at |-> "body"]>>]
    /\ UNCHANGED <<operationVars, hreq, canon, amzRestore, status, doc,
                   unclean, problems, hresp, built, conn>>

\* s3.v4sign = true; return s3
SetV4sign ==
    /\ made.stack # <<>> /\ ~made.fatal
    /\ Top.at = "set"
    /\ made.value # <<>>
    /\ made' = ReturnValue([made.value[1] EXCEPT !.v4sign = TRUE])
    /\ UNCHANGED <<operationVars, hreq, canon, amzRestore, status, doc,
                   unclean, problems, hresp, built, conn>>

\* The stack of the goroutine has reached its limit: fatal error, stack
\* overflow.
StackOverflow ==
    /\ made.stack # <<>> /\ ~made.fatal
    /\ Top.fn \in {"NewV4", "NewWithCustomRootCAsV4"}
    /\ Top.at = "body"
    /\ Len(made.stack) >= MaxFrames
    /\ made' = [made EXCEPT !.fatal = TRUE]
    /\ UNCHANGED <<operationVars, hreq, canon, amzRestore, status, doc,
                   unclean, problems, hresp, built, conn>>

NewStep ==
    \/ CallConstructor
    \/ Build
    \/ CallInner
    \/ SetV4sign
    \/ StackOverflow

\* The goroutine of the call is scheduled.
NewSpec == NewInit /\ [][NewStep]_vars /\ WF_vars(NewStep)

\* C34: NewWithCustomRootCAsV4 terminates and returns a client configured
\* like that of NewWithCustomRootCAs, with V4 signing enabled
\* (v4sign = true).
CustomRootCAsV4Returns ==
    (made.called /\ made.fn = "NewWithCustomRootCAsV4") ~>
        (made.result =
            <<[S3Of("NewWithCustomRootCAs", made.args) EXCEPT !.v4sign = TRUE]>>)

\* NewV4 returns the client of New with V4 signing enabled.
NewV4Returns ==
    (made.called /\ made.fn = "NewV4") ~>
        (made.result = <<[S3Of("New", made.args) EXCEPT !.v4sign = TRUE]>>)

----------------------------------------------------------------------------
(* RunSpec: httpClient.Do has returned a response without error, and run   *)
(* decides what to return for it.                                          *)

\* The body of a response: whether reading it fails, whether the decoding
\* of its XML fails, and what xml.Unmarshal has stored into the fields of
\* the Error by the time it returns.
Bodies ==
    [readErr : BOOLEAN, decodeErr : BOOLEAN,
     Code : {"", "AccessDenied"},
     Message : {<<>>, <<"access", "denied">>},
     StatusCode : {0, 999}]
\* A body that cannot be read gives nothing to decode.
Readable(b) ==
    b.readErr => (~b.decodeErr /\ b.Code = "" /\ b.Message = <<>> /\ b.StatusCode = 0)

\* hresp, and whether the caller of run gave a value to decode the body
\* into (resp != nil).
Responses ==
    {r \in [StatusCode : {200, 201, 204, 206, 301, 403, 404, 500},
            Header : ResponseHeaders, Body : Bodies, into : BOOLEAN] :
        Readable(r.Body)}

\* r.Status, the status line of the response
StatusText(r) == <<"status", ToString(r.StatusCode)>>

\* func buildError(r *http.Response) error
buildErrorBodyStatus(r) ==
    LET b == r.Body
        errMessage ==
            (IF b.readErr THEN <<"reading response body failed:">>
             ELSE IF b.decodeErr THEN <<"decoding XML failed:">> ELSE <<>>)
            \o (IF ~b.readErr THEN <<"raw response:">> ELSE <<>>)
    IN  [StatusCode |-> b.StatusCode,
         Code |-> b.Code,
         Message |-> IF b.Message = <<>>
                     THEN <<"HTTP response">> \o StatusText(r) \o errMessage
                     ELSE b.Message,
         ResponseHeaders |-> r.Header]
buildError(r) ==
    LET b == r.Body
        errMessage ==
            (IF b.readErr THEN <<"reading response body failed:">>
             ELSE IF b.decodeErr THEN <<"decoding XML failed:">> ELSE <<>>)
            \o (IF ~b.readErr THEN <<"raw response:">> ELSE <<>>)
    IN  [StatusCode |-> r.StatusCode,
         Code |-> b.Code,
         Message |-> IF b.Message = <<>>
                     THEN <<"HTTP response">> \o StatusText(r) \o errMessage
                     ELSE b.Message,
         ResponseHeaders |-> r.Header]

\* The end of run: the check of hresp.StatusCode, and the decoding of the
\* body into resp.  What run returns: the response (or nil) and the error
\* (or nil).
runReturn(r) ==
    IF r.StatusCode # 200 /\ r.StatusCode # 204 /\ r.StatusCode # 206
    THEN [resp |-> <<>>, err |-> <<buildError(r)>>]
    ELSE IF r.into /\ (r.Body.readErr \/ r.Body.decodeErr)
    THEN [resp |-> <<r>>, err |-> <<"decode">>]
    ELSE [resp |-> <<r>>, err |-> <<>>]

RunInit ==
    /\ NoOperation
    /\ hreq = <<>> /\ canon = <<>>
    /\ amzRestore = <<>> /\ status = <<>>
    /\ doc = <<>> /\ unclean = <<>>
    /\ problems = <<>> /\ made = <<>> /\ conn = <<>>
    /\ hresp \in Responses
    /\ built = <<>>

\* hresp, err := httpClient.Do(&hreq) has returned hresp; run returns
RunReturns ==
    /\ built = <<>>
    /\ built' = <<runReturn(hresp)>>
    /\ UNCHANGED <<operationVars, hreq, canon, amzRestore, status, doc,
                   unclean, problems, made, hresp, conn>>

RunStep == RunReturns

RunSpec == RunInit /\ [][RunStep]_vars

\* C32: run turns every response whose status is not 200, 204 or 206 into
\* an error and returns no response; the *Error that buildError builds has
\* the StatusCode of the response and carries its headers, whether or not
\* the body could be read or decoded as XML, and its Message is not empty.
ErrorFromResponse ==
    (built # <<>> /\ hresp.StatusCode \notin {200, 204, 206}) =>
        /\ built[1].resp = <<>>
        /\ built[1].err # <<>>
        /\ built[1].err[1].StatusCode = hresp.StatusCode
        /\ built[1].err[1].ResponseHeaders = hresp.Header
        /\ built[1].err[1].Message # <<>>

\* run has returned the error for a 403 whose body was decoded, gave no
\* Message, and had an element StatusCode of another value.
ErrorFromResponseWitness ==
    /\ built # <<>>
    /\ hresp.StatusCode = 403
    /\ ~hresp.Body.readErr /\ ~hresp.Body.decodeErr
    /\ hresp.Body.StatusCode = 999 /\ hresp.Body.Message = <<>>
    /\ hresp.Header # NoHeaders
    /\ built[1].err[1].StatusCode = 403

\* run has returned the error for a 500 whose body could not be read.
UnreadableBodyWitness ==
    /\ built # <<>>
    /\ hresp.StatusCode = 500 /\ hresp.Body.readErr
    /\ built[1].err[1].Message =
         <<"HTTP response", "status", "500", "reading response body failed:">>

----------------------------------------------------------------------------
(* ConnSpec: the transport that run makes dials the connection of an       *)
(* attempt, and the HTTP client reads from it and writes to it while time  *)
(* passes.  A time.Time is <<>> when it is the zero time (no deadline) and *)
(* <<t>> otherwise.                                                        *)

MaxTimeout == 2

\* The timeouts of the S3 client and of the request (req.timeout).
Timeouts ==
    [ReadTimeout : 0..MaxTimeout, WriteTimeout : 0..MaxTimeout,
     RequestTimeout : 0..MaxTimeout, timeout : -1..MaxTimeout]

\* No connection yet.  wrapped says that the connection is an
\* ioTimeoutConn; readDeadline and writeDeadline are the deadlines of the
\* TCP connection; dialedAt, readAt and writeAt are the values of
\* time.Now() in Dial and in the last Read and Write that set a deadline.
NoConn(t) ==
    [timeouts |-> t, dialed |-> FALSE, wrapped |-> FALSE,
     requestDeadline |-> <<>>, readDeadline |-> <<>>, writeDeadline |-> <<>>,
     dialedAt |-> <<>>, readAt |-> <<>>, writeAt |-> <<>>]

\* The timeout for this request, defaults to s3.RequestTimeout
thisRequestTimeout(t) ==
    IF t.timeout # 0 THEN t.timeout ELSE t.RequestTimeout

\* The Dial function of the transport, after net.DialTimeout, at time t
Dial(c, t) ==
    LET trt == thisRequestTimeout(c.timeouts)
        deadline == IF trt > 0 THEN <<t + trt>> ELSE <<>>
    IN  [c EXCEPT
          !.dialed = TRUE,
          !.dialedAt = <<t>>,
          !.readDeadline = deadline,
          !.writeDeadline = deadline,
          !.wrapped = c.timeouts.ReadTimeout > 0 \/ c.timeouts.WriteTimeout > 0,
          !.requestDeadline =
              IF c.timeouts.ReadTimeout > 0 \/ c.timeouts.WriteTimeout > 0
              THEN deadline ELSE <<>>]

\* func (c *ioTimeoutConn) deadline(timeout time.Duration) time.Time, at
\* time t
deadlineUncapped(c, timeout, t) == <<t + timeout>>
deadline(c, timeout, t) ==
    LET dl == t + timeout
    IN  IF c.requestDeadline = <<>> \/ dl < c.requestDeadline[1]
        THEN <<dl>>
        ELSE c.requestDeadline

\* func (c *ioTimeoutConn) Read(b []byte), up to c.TCPConn.Read
Read(c, t) ==
    IF c.timeouts.ReadTimeout > 0
    THEN [c EXCEPT !.readDeadline = deadline(c, c.timeouts.ReadTimeout, t),
                   !.readAt = <<t>>]
    ELSE c
\* func (c *ioTimeoutConn) Write(b []byte), up to c.TCPConn.Write
Write(c, t) ==
    IF c.timeouts.WriteTimeout > 0
    THEN [c EXCEPT !.writeDeadline = deadline(c, c.timeouts.WriteTimeout, t),
                   !.writeAt = <<t>>]
    ELSE c

ConnInit ==
    /\ NoOperation
    /\ hreq = <<>> /\ canon = <<>>
    /\ amzRestore = <<>> /\ status = <<>>
    /\ doc = <<>> /\ unclean = <<>>
    /\ problems = <<>> /\ made = <<>> /\ hresp = <<>> /\ built = <<>>
    /\ \E t \in Timeouts : conn = NoConn(t)

\* The transport dials.
CallDial ==
    /\ ~conn.dialed
    /\ conn' = Dial(conn, now)
    /\ UNCHANGED <<operationVars, hreq, canon, amzRestore, status, doc,
                   unclean, problems, made, hresp, built>>

\* The HTTP client reads from the connection.
CallRead ==
    /\ conn.dialed /\ conn.wrapped
    /\ conn' = Read(conn, now)
    /\ UNCHANGED <<operationVars, hreq, canon, amzRestore, status, doc,
                   unclean, problems, made, hresp, built>>

\* The HTTP client writes to the connection.
CallWrite ==
    /\ conn.dialed /\ conn.wrapped
    /\ conn' = Write(conn, now)
    /\ UNCHANGED <<operationVars, hreq, canon, amzRestore, status, doc,
                   unclean, problems, made, hresp, built>>

ConnStep ==
    \/ Tick
    \/ CallDial
    \/ CallRead
    \/ CallWrite

ConnSpec == ConnInit /\ [][ConnStep]_vars

\* The smaller of two times.
Earlier(x, y) == IF x < y THEN x ELSE y

\* C38: the deadline that ioTimeoutConn sets for an individual read or
\* write is min(now + phase timeout, request deadline) when a request
\* deadline is set and now + phase timeout otherwise, so that no read or
\* write deadline is ever later than the request deadline of the attempt;
\* the request deadline uses the timeout of the request when that is not
\* zero and the RequestTimeout of the client otherwise.
DeadlinesWithinRequest ==
    LET t == conn.timeouts
        rd == conn.requestDeadline
    IN  /\ conn.readAt # <<>> =>
              conn.readDeadline =
                  IF rd # <<>>
                  THEN <<Earlier(conn.readAt[1] + t.ReadTimeout, rd[1])>>
                  ELSE <<conn.readAt[1] + t.ReadTimeout>>
        /\ conn.writeAt # <<>> =>
              conn.writeDeadline =
                  IF rd # <<>>
                  THEN <<Earlier(conn.writeAt[1] + t.WriteTimeout, rd[1])>>
                  ELSE <<conn.writeAt[1] + t.WriteTimeout>>
        /\ rd # <<>> =>
              /\ conn.readDeadline # <<>> /\ conn.readDeadline[1] <= rd[1]
              /\ conn.writeDeadline # <<>> /\ conn.writeDeadline[1] <= rd[1]
              /\ rd[1] = conn.dialedAt[1]
                            + (IF t.timeout # 0 THEN t.timeout ELSE t.RequestTimeout)

\* A read later than the dialing set a read deadline that the request
\* deadline cut short, and a write set one that it did not; the request
\* deadline came from the timeout of the request, not from the client's.
DeadlinesWithinRequestWitness ==
    /\ conn.readAt # <<>> /\ conn.writeAt # <<>>
    /\ conn.requestDeadline # <<>>
    /\ conn.readAt[1] > conn.dialedAt[1]
    /\ conn.readAt[1] + conn.timeouts.ReadTimeout > conn.requestDeadline[1]
    /\ conn.readDeadline = conn.requestDeadline
    /\ conn.writeDeadline[1] < conn.requestDeadline[1]
    /\ conn.timeouts.timeout # 0
    /\ conn.timeouts.timeout # conn.timeouts.RequestTimeout

\* Without a request deadline, a read set its deadline to now + ReadTimeout.
NoRequestDeadlineWitness ==
    /\ conn.readAt # <<>> /\ conn.requestDeadline = <<>>
    /\ conn.timeouts.timeout < 0 /\ conn.timeouts.RequestTimeout > 0
    /\ conn.readDeadline = <<conn.readAt[1] + conn.timeouts.ReadTimeout>>

----------------------------------------------------------------------------
(* ValueSpec: CheckValues is called on a lifecycle Configuration whose     *)
(* rules have a Status and whose transitions have Days, a Date and a       *)
(* StorageClass.  A *int or *string is <<>> when nil and <<x>> otherwise.  *)

ValuedTransitions ==
    [kind : {"Transition"}, Days : {<<>>, <<-1>>, <<30>>},
     Date : {<<>>, <<"2017-01-01">>},
     StorageClass : {"STANDARD_IA", "GLACIER", "STANDARD"},
     UNKNOWN : {<<>>}]
\* A rule with no, one or two transitions, with or without an expiration.
ValuedRules ==
    [kind : {"Rule"}, Status : {"Enabled", "Disabled", ""},
     Filter : {<<>>},
     Transitions : {<<>>} \cup {<<t>> : t \in ValuedTransitions}
                          \cup [1..2 -> ValuedTransitions],
     Expiration : Ptr({[kind |-> "Expiration", UNKNOWN |-> <<>>]}),
     UNKNOWN : {<<>>}]
\* No rule, one rule, or two rules of at most one transition each and
\* without expiration.
ValuedRuleLists ==
    {<<>>} \cup {<<r>> : r \in ValuedRules}
           \cup [1..2 -> {r \in ValuedRules :
                            Len(r.Transitions) <= 1 /\ r.Expiration = <<>>}]
ValuedConfigurations ==
    [kind : {"Configuration"}, Rules : ValuedRuleLists, UNKNOWN : {<<>>}]

\* func (v *valCh) VisitRule(r *Rule): the errors it adds
valChVisitRule(r) ==
    IF ~(r.Status = "Enabled" \/ r.Status = "Disabled")
    THEN <<<<"Rule Status must be 'Enabled' or 'Disabled', got:", r.Status>>>>
    ELSE <<>>

\* func (v *valCh) VisitTransition(t *Transition): the errors it adds
valChVisitTransitionNoNegative(t) ==
    (IF t.Days # <<>> /\ t.Date # <<>>
     THEN <<<<"Transtion cannot have both a Date and Day">>>> ELSE <<>>)
    \o (IF ~(t.StorageClass = "STANDARD_IA" \/ t.StorageClass = "GLACIER")
        THEN <<<<"StorageClass ,must be on of ('STANDARD_IA', 'GLACIER'), got:",
                 t.StorageClass>>>>
        ELSE <<>>)
valChVisitTransition(t) ==
    (IF t.Days # <<>> /\ t.Date # <<>>
     THEN <<<<"Transtion cannot have both a Date and Day">>>> ELSE <<>>)
    \o (IF t.Days # <<>> /\ t.Days[1] < 0
        THEN <<<<"Days cannot be negative, got:", ToString(t.Days[1])>>>>
        ELSE <<>>)
    \o (IF ~(t.StorageClass = "STANDARD_IA" \/ t.StorageClass = "GLACIER")
        THEN <<<<"StorageClass ,must be on of ('STANDARD_IA', 'GLACIER'), got:",
                 t.StorageClass>>>>
        ELSE <<>>)

\* The valCh visitor: v.errors after the calls; the methods of the
\* embedded NullVisitor add nothing.
RECURSIVE valCh(_, _)
valCh(errors, calls) ==
    IF calls = <<>> THEN errors
    ELSE LET n == Head(calls)
             added == IF n.kind = "Rule" THEN valChVisitRule(n)
                      ELSE IF n.kind = "Transition" THEN valChVisitTransition(n)
                      ELSE <<>>
         IN  valCh(errors \o added, Tail(calls))

\* func (c *Configuration) CheckValues() []error
CheckValues(c) == valCh(<<>>, Visit(c))

ValueInit ==
    /\ NoOperation
    /\ hreq = <<>> /\ canon = <<>>
    /\ amzRestore = <<>> /\ status = <<>>
    /\ unclean = <<>>
    /\ made = <<>> /\ hresp = <<>> /\ built = <<>> /\ conn = <<>>
    /\ doc \in ValuedConfigurations
    /\ problems = <<>>

\* errs := c.CheckValues()
CallCheckValues ==
    /\ problems = <<>>
    /\ problems' = <<CheckValues(doc)>>
    /\ UNCHANGED <<operationVars, hreq, canon, amzRestore, status, doc,
                   unclean, made, hresp, built, conn>>

ValueStep == CallCheckValues

ValueSpec == ValueInit /\ [][ValueStep]_vars

\* The conditions that a rule and a transition violate, in the order in
\* which they are tested.
RuleViolations(r) ==
    SelectSeq(<<"status">>, LAMBDA x : r.Status \notin {"Enabled", "Disabled"})
TransitionViolations(t) ==
    SelectSeq(<<"both", "negative", "class">>,
              LAMBDA x :
                  \/ x = "both" /\ t.Days # <<>> /\ t.Date # <<>>
                  \/ x = "negative" /\ t.Days # <<>> /\ t.Days[1] < 0
                  \/ x = "class" /\ t.StorageClass \notin {"STANDARD_IA", "GLACIER"})
\* The violations of a document: rule after rule, each rule followed by
\* its transitions.
Violations(c) ==
    Concat([i \in DOMAIN c.Rules |->
              RuleViolations(c.Rules[i])
              \o Concat([j \in DOMAIN c.Rules[i].Transitions |->
                            TransitionViolations(c.Rules[i].Transitions[j])])])
\* Which condition an error reports.
ConditionOf(e) ==
    IF e[1] = "Rule Status must be 'Enabled' or 'Disabled', got:" THEN "status"
    ELSE IF e[1] = "Transtion cannot have both a Date and Day" THEN "both"
    ELSE IF e[1] = "Days cannot be negative, got:" THEN "negative"
    ELSE "class"

\* C39: CheckValues returns an empty list if and only if every rule's
\* Status is "Enabled" or "Disabled" and every transition has a
\* StorageClass of "STANDARD_IA" or "GLACIER", does not set both Days and
\* Date, and has no negative Days; otherwise it returns one error per
\* violated condition, accumulated over all rules and transitions in
\* traversal order.
CheckValuesErrors ==
    problems # <<>> =>
        LET errs == problems[1]
            valid ==
                \A i \in DOMAIN doc.Rules :
                    /\ doc.Rules[i].Status \in {"Enabled", "Disabled"}
                    /\ \A j \in DOMAIN doc.Rules[i].Transitions :
                         LET t == doc.Rules[i].Transitions[j]
                         IN  /\ t.StorageClass \in {"STANDARD_IA", "GLACIER"}
                             /\ ~(t.Days # <<>> /\ t.Date # <<>>)
                             /\ ~(t.Days # <<>> /\ t.Days[1] < 0)
        IN  /\ errs = <<>> <=> valid
            /\ [i \in DOMAIN errs |-> ConditionOf(errs[i])] = Violations(doc)

\* CheckValues has returned five errors for a document of two rules: the
\* first with a Status that is not allowed and a transition that violates
\* all three conditions, the second valid but for the StorageClass of its
\* transition.
CheckValuesErrorsWitness ==
    /\ problems # <<>>
    /\ Len(doc.Rules) = 2
    /\ [i \in DOMAIN problems[1] |-> ConditionOf(problems[1][i])]
         = <<"status", "both", "negative", "class", "class">>
    /\ doc.Rules[2].Status = "Enabled"

\* CheckValues has returned the empty list for a rule with two valid
\* transitions and an expiration.
ValidDocumentWitness ==
    /\ problems = <<<<>>>>
    /\ Len(doc.Rules) = 1
    /\ Len(doc.Rules[1].Transitions) = 2
    /\ doc.Rules[1].Expiration # <<>>

====
